---- MODULE Spec2Model ----
(***************************************************************************)
(* Model of the serverless request handlers of kasi-shine-connect:         *)
(*   - performance-intervention  (src/unnamed/part_003)                    *)
(*   - ai-chat, minimal variant  (src/unnamed/part_001)                    *)
(*   - ai-chat, context variant  (src/unnamed/part_002)                    *)
(* together with the chat_messages table they write                        *)
(* (src/unnamed/part_000).  Every await of a handler is one step; the      *)
(* upstream chat-completion service and the data store are the             *)
(* environment and choose their answers nondeterministically.              *)
(*                                                                         *)
(* Optional JavaScript values (null / undefined / absent) are sequences:   *)
(* <<>> is null, <<v>> is the value v.                                     *)
(***************************************************************************)
EXTENDS Integers, Sequences, FiniteSets, TLC

VARIABLES
    chat_messages,  \* rows of public.chat_messages in created_at order
    env,            \* Deno.env: which settings are present
    db,             \* the other tables: auth.users, profiles,
                    \* performance_records, mentors, support_resources
    req,            \* per request slot: the handler invocation's local state
    ui              \* the web client: what each of its pages holds

vars == <<chat_messages, env, db, req, ui>>

----------------------------------------------------------------------------
(* Bounds *)

MaxRequests == 2     \* request slots
MaxGrade == 100      \* grades range over 0..MaxGrade
MaxTurns == 2        \* longest messages array a caller sends
MaxRecords == 6      \* most performance records a student has
MaxMentors == 4      \* most available mentors in one municipality
MaxEntries == 2      \* most rows in the table a directory page lists
MaxActs == 3         \* most things the user does on the pages
MaxVisits == 2       \* most times the dashboard is opened
MaxSends == 2        \* most times the student presses send
MaxLog == 2          \* client pages write while the log is shorter than this

(* Program constants *)

LowGradeThreshold == 50   \* new_grade < 50
DropMargin == 10          \* new_grade < previous_grade - 10
TimeoutStatus == 504
BadGatewayStatus == 502
BadRequestStatus == 400
InternalErrorStatus == 500
OkStatus == 200
PerformanceLimit == 5     \* .limit(5)
MentorLimit == 3          \* .limit(3)
ContextReads == 4         \* profile, performance, mentors, resources

Requests == 1..MaxRequests
Grades == 0..MaxGrade

Null == <<>>
Some(v) == <<v>>

(* auth.users, and the ids and bearer tokens callers may present *)
Users == {"u1"}
StudentIds == {"u1", "u9"}
Tokens == {"tok_u1", "tok_bad"}
Subjects == {"Maths"}
Replies == {"reply_a", "reply_b"}
UpstreamErrorStatuses == {429, 500}

----------------------------------------------------------------------------
(* The chat_messages table *)

ChatMessagesColumns == {"id", "student_id", "role", "content", "created_at"}

RowAccepted_NoStudentCheck(row) ==
    /\ DOMAIN row \subseteq ChatMessagesColumns
    /\ {"student_id", "role", "content"} \subseteq DOMAIN row
    /\ row.role # Null
    /\ row.content # Null

\* A row satisfies the table's declaration: only declared columns, and the
\* NOT NULL / REFERENCES auth.users constraints.
RowAccepted(row) ==
    /\ DOMAIN row \subseteq ChatMessagesColumns
    /\ {"student_id", "role", "content"} \subseteq DOMAIN row
    /\ row.student_id # Null
    /\ row.student_id[1] \in db.auth_users
    /\ row.role # Null
    /\ row.content # Null

\* One insert statement is atomic: all rows or none.
InsertAccepted(rows) == \A i \in 1..Len(rows) : RowAccepted(rows[i])

\* The outcomes of an awaited insert: the statement reached the table
\* ("applied": stored when accepted, an error result otherwise), the client
\* resolved with an error result without reaching the table ("failed"), or
\* the awaited promise rejected ("thrown").
InsertOutcomes == {"applied", "failed", "thrown"}

StoredRows(rows, outcome) ==
    IF outcome = "applied" /\ InsertAccepted(rows) THEN rows ELSE <<>>

----------------------------------------------------------------------------
(* The web client *)

\* the Mentors or Support page before it is opened (part_005 lines 24-26
\* and 222-224)
IdleDirectory ==
    [page |-> "none", userLocation |-> "", entries |-> <<>>,
     loading |-> TRUE, auth |-> "idle", fetch |-> "idle"]

\* the Performance page before it is opened (Performance.tsx lines 24-29);
\* runs are the analyzeMarks calls in flight, each with the mount it
\* belongs to and the number of records its message was built from;
\* started counts the analyzeMarks calls that reached the service
IdlePerf ==
    [mounted |-> FALSE, mounts |-> 0, loading |-> TRUE, records |-> <<>>,
     analyzing |-> FALSE, analysis |-> Null, autoAnalyzed |-> FALSE,
     fetches |-> 0, runs |-> <<>>, auto_runs |-> 0, manual_runs |-> 0,
     started |-> 0]

\* the chat panel before the dashboard is opened (ChatInterface.tsx lines
\* 17-19); loads are the loadChatHistory calls in flight and sends the
\* sendMessage calls in flight, each with the mount it belongs to;
\* arrivals are the navigation states the panel was opened with, overlap
\* says that one was opened while an earlier one was still being stored,
\* pressed is the input the student last tried to send, sent is the last
\* exchange the chat function answered and history the rows the last
\* successful load read, with the exchange known by then
IdleChat ==
    [mounted |-> FALSE, mounts |-> 0, messages |-> <<>>, loading |-> FALSE,
     loads |-> <<>>, sends |-> <<>>, arrivals |-> <<>>, overlap |-> FALSE,
     pressed |-> "", sent |-> Null, history |-> Null]

\* nav is the state of the current location (ChatInterface.tsx line 35);
\* session is who supabase.auth.getUser() says is signed in; persists are
\* the background inserts analyzeMarks has started; acts counts what the
\* user has done
IdleUi ==
    [directory |-> IdleDirectory, perf |-> IdlePerf, chat |-> IdleChat,
     nav |-> Null, session |-> Null, persists |-> <<>>, acts |-> 0]

\* Performance.tsx lines 410-411: the marks message for n records, newest
\* record first
MarksMessage(n) ==
    IF n = 0 THEN "The student got:"
    ELSE "The student got:" \o ToString(n) \o " marks"

\* Performance.tsx lines 123-127: the same lines, then the request
AnalysisRequest(n) == MarksMessage(n) \o "Please provide an analysis"

\* a text as the pieces that matter for a substring test
Words(text) ==
    CASE text = "" -> <<>>
      [] text = "Emalahleni, Nkangala" -> <<"Emalahleni", ", ", "Nkangala">>
      [] text = MarksMessage(0) -> <<text>>
      [] \E n \in 1..(MaxRecords + MaxActs) : text = MarksMessage(n) ->
            <<MarksMessage(0), text>>
      [] \E n \in 0..(MaxRecords + MaxActs) : text = AnalysisRequest(n) ->
            LET n == CHOOSE k \in 0..(MaxRecords + MaxActs) :
                         text = AnalysisRequest(k)
            IN IF n = 0
               THEN <<MarksMessage(0), "Please provide an analysis">>
               ELSE <<MarksMessage(0), MarksMessage(n),
                      "Please provide an analysis">>
      [] OTHER -> <<text>>

\* String.prototype.includes
Includes(text, part) ==
    LET h == Words(text)
        n == Words(part)
    IN \E i \in 0..(Len(h) - Len(n)) : \A j \in 1..Len(n) : h[i + j] = n[j]

----------------------------------------------------------------------------
(* Request slots *)

NoBody ==
    [json |-> FALSE, messages_kind |-> "absent", messages |-> <<>>,
     student_id |-> Null, authorization |-> Null, subject |-> Null,
     new_grade |-> 0, previous_grade |-> Null]

NoResponse ==
    [status |-> 0, error |-> Null, details |-> Null,
     intervention_triggered |-> Null, reason |-> Null,
     message |-> Null, subject |-> Null, chat_id |-> Null]

\* what the context assembler has read and rendered
NoFetch ==
    [profile |-> Null, recentPerformance |-> Null, mentors |-> Null,
     resources |-> Null]

NoSection == [text |-> "", lines |-> <<>>]

NoContext ==
    [performance |-> NoSection, mentors |-> NoSection,
     resources |-> NoSection]

IdleRequest ==
    [handler |-> "none", pc |-> "idle", body |-> NoBody,
     supabase |-> FALSE, user |-> Null,
     trigger |-> Null, status_label |-> Null,
     timer |-> "unset", upstream |-> "none",
     gateway_kind |-> "none", gateway_status |-> 0,
     aiMessage |-> Null, pending_rows |-> <<>>, insert_outcome |-> "none",
     response |-> NoResponse,
     fetched |-> NoFetch, region |-> Null, context |-> NoContext,
     reads |-> 0, gateway_calls |-> 0, stored |-> <<>>]

\* new Response(JSON.stringify(fields), {status})
Respond(r, status, fields) ==
    [req[r] EXCEPT !.pc = "done",
                   !.response = [f \in DOMAIN NoResponse |->
                                   IF f = "status" THEN status
                                   ELSE IF f \in DOMAIN fields THEN fields[f]
                                   ELSE NoResponse[f]]]

----------------------------------------------------------------------------
(* performance-intervention: the decision *)

\* JavaScript truthiness of an optional number
Truthy(n) == n # Null /\ n[1] # 0

isLowGrade_WrongThreshold(new_grade) ==
    new_grade < LowGradeThreshold - DropMargin

isLowGrade(new_grade) == new_grade < LowGradeThreshold

gradeDropped_Inclusive(new_grade, previous_grade) ==
    Truthy(previous_grade) /\ new_grade <= previous_grade[1] - DropMargin

gradeDropped(new_grade, previous_grade) ==
    Truthy(previous_grade) /\ new_grade < previous_grade[1] - DropMargin

isFirstAssessment(previous_grade) == ~Truthy(previous_grade)

Status_Inverted(new_grade, previous_grade) ==
    IF isFirstAssessment(previous_grade) THEN "First Low Grade"
    ELSE IF ~isLowGrade(new_grade) THEN "Low Grade"
    ELSE "Grade Drop"

Status(new_grade, previous_grade) ==
    IF isFirstAssessment(previous_grade) THEN "First Low Grade"
    ELSE IF isLowGrade(new_grade) THEN "Low Grade"
    ELSE "Grade Drop"

InterventionNeeded_FirstAssessment(new_grade, previous_grade) ==
    \/ isLowGrade(new_grade)
    \/ gradeDropped(new_grade, previous_grade)
    \/ isFirstAssessment(previous_grade)

\* the early return of the handler is taken when this is false
InterventionNeeded(new_grade, previous_grade) ==
    isLowGrade(new_grade) \/ gradeDropped(new_grade, previous_grade)

----------------------------------------------------------------------------
(* The upstream chat-completion service *)

\* What an outbound fetch can come back with: a rejected fetch, a
\* non-success status, or a success status whose body parses to
\* {choices: [{message: {content}}]}, to {message}, to some other JSON
\* value, or does not parse.
GatewayOutcomes ==
    {[kind |-> "network_error", status |-> 0, content |-> Null]}
    \cup {[kind |-> "http_error", status |-> s, content |-> Null] :
            s \in UpstreamErrorStatuses}
    \cup {[kind |-> k, status |-> OkStatus, content |-> Some(c)] :
            k \in {"choices", "message_only"}, c \in Replies}
    \cup {[kind |-> k, status |-> OkStatus, content |-> Null] :
            k \in {"other_json", "unparseable"}}

\* An upstream either answers at some time ("live") or never ("silent").
UpstreamModes == {"live", "silent"}

----------------------------------------------------------------------------
(* performance-intervention handler, src/unnamed/part_003 *)

InterventionBody(student_id, subject, new_grade, previous_grade) ==
    [NoBody EXCEPT !.json = TRUE, !.student_id = student_id,
                   !.subject = Some(subject), !.new_grade = new_grade,
                   !.previous_grade = previous_grade]

UnparseableBody == NoBody

InterventionFailure_NoFlag(r, message) ==
    Respond(r, InternalErrorStatus, [error |-> message])

InterventionFailure(r, message) ==
    Respond(r, InternalErrorStatus,
            [error |-> message, intervention_triggered |-> Some(FALSE)])

InterventionRow(b, aiMessage) ==
    [student_id |-> b.student_id,
     role |-> Some("assistant"),
     content |-> aiMessage,
     metadata |-> [trigger |-> "performance_intervention",
                   subject |-> b.subject,
                   grade |-> b.new_grade,
                   previous_grade |-> b.previous_grade]]

InterventionChatId(student_id) == <<"intervention", "Date.now()", student_id>>

\* lines 15-26: parse the body, require the data-store settings
IntvReceive(r, bodies) ==
    /\ req[r].pc = "idle"
    /\ \E body \in bodies :
         LET started == [IdleRequest EXCEPT !.handler = "intervention",
                                            !.body = body]
             failed(message) ==
                 [started EXCEPT
                    !.pc = "done",
                    !.response = InterventionFailure(r, message).response]
         IN req' =
              IF ~body.json
              THEN [req EXCEPT ![r] = failed(<<"Unexpected token in JSON">>)]
              ELSE IF ~env.SUPABASE
              THEN [req EXCEPT ![r] =
                      failed(<<"Missing Supabase environment variables">>)]
              ELSE [req EXCEPT ![r] =
                      [started EXCEPT !.pc = "fetch_context",
                                      !.supabase = TRUE]]
    /\ UNCHANGED <<chat_messages, env, db, ui>>

\* lines 28-47: profile, study materials and mentors are read
IntvFetchContext(r) ==
    /\ req[r].handler = "intervention"
    /\ req[r].pc = "fetch_context"
    /\ req' = [req EXCEPT ![r].pc = "evaluate",
                          ![r].reads = @ + 3]
    /\ UNCHANGED <<chat_messages, env, db, ui>>

\* lines 49-124: decide, build the prompt, require the API key, call out
IntvEvaluate(r, mode) ==
    /\ req[r].handler = "intervention"
    /\ req[r].pc = "evaluate"
    /\ LET b == req[r].body
           needed == InterventionNeeded(b.new_grade, b.previous_grade)
           label == Status(b.new_grade, b.previous_grade)
       IN req' =
            IF ~needed
            THEN [req EXCEPT ![r] =
                    [Respond(r, OkStatus,
                             [intervention_triggered |-> Some(FALSE),
                              reason |-> <<"Grades satisfactory">>])
                       EXCEPT !.trigger = Some(FALSE)]]
            ELSE IF ~env.OPENROUTER_API_KEY
            THEN [req EXCEPT ![r] =
                    [InterventionFailure(r, <<"Missing OpenRouter API key">>)
                       EXCEPT !.trigger = Some(TRUE),
                              !.status_label = Some(label)]]
            ELSE [req EXCEPT ![r].trigger = Some(TRUE),
                             ![r].status_label = Some(label),
                             ![r].pc = "await_gateway",
                             ![r].upstream = mode,
                             ![r].gateway_calls = @ + 1]
    /\ UNCHANGED <<chat_messages, env, db, ui>>

\* lines 124-150: the fetch settles; read the reply and issue the insert
IntvGatewayReturns(r, outcome) ==
    /\ req[r].handler = "intervention"
    /\ req[r].pc = "await_gateway"
    /\ req[r].upstream = "live"
    /\ LET settled(q) == [q EXCEPT !.upstream = "settled",
                                   !.gateway_kind = outcome.kind,
                                   !.gateway_status = outcome.status]
       IN req' =
         IF outcome.kind = "network_error"
         THEN [req EXCEPT ![r] =
                 settled(InterventionFailure(r, <<"fetch failed">>))]
         ELSE IF outcome.kind = "http_error"
         THEN [req EXCEPT ![r] =
                 settled(InterventionFailure(r,
                     <<"OpenRouter API error: ", outcome.status>>))]
         ELSE IF outcome.kind = "unparseable"
         THEN [req EXCEPT ![r] =
                 settled(InterventionFailure(r,
                     <<"Unexpected token in JSON">>))]
         ELSE IF outcome.kind # "choices"
         THEN [req EXCEPT ![r] =
                 settled(InterventionFailure(r,
                     <<"Cannot read properties of undefined">>))]
         ELSE [req EXCEPT ![r] =
                 settled([req[r] EXCEPT
                    !.aiMessage = outcome.content,
                    !.pending_rows =
                        <<InterventionRow(req[r].body, outcome.content)>>,
                    !.pc = "await_insert"])]
    /\ UNCHANGED <<chat_messages, env, db, ui>>

\* lines 136-178: the insert settles; answer the caller
IntvInsertReturns(r, outcome) ==
    /\ req[r].handler = "intervention"
    /\ req[r].pc = "await_insert"
    /\ LET rows == StoredRows(req[r].pending_rows, outcome)
           b == req[r].body
       IN /\ chat_messages' = chat_messages \o rows
          /\ req' =
               IF outcome = "thrown"
               THEN [req EXCEPT ![r] =
                       [InterventionFailure(r, <<"insert rejected">>)
                          EXCEPT !.insert_outcome = outcome]]
               ELSE [req EXCEPT ![r] =
                       [Respond(r, OkStatus,
                                [intervention_triggered |-> Some(TRUE),
                                 message |-> req[r].aiMessage,
                                 subject |-> b.subject,
                                 chat_id |->
                                     InterventionChatId(b.student_id)])
                          EXCEPT !.stored = rows,
                                 !.insert_outcome = outcome]]
    /\ UNCHANGED <<env, db, ui>>

----------------------------------------------------------------------------
(* Direct chat: request bodies *)

Turns == {[role |-> "user", content |-> c] : c \in {"m1", "m2"}}

MessageArrays ==
    UNION {[1..n -> Turns] : n \in 0..MaxTurns}

\* messages_kind "not_array" stands for a JSON value that is neither an
\* array nor iterable (a number or an object).
ChatBody(kind, messages, student_id, authorization) ==
    [NoBody EXCEPT !.json = TRUE, !.messages_kind = kind,
                   !.messages = messages, !.student_id = student_id,
                   !.authorization = authorization]

MessageFields ==
    {<<"absent", <<>>>>, <<"not_array", <<>>>>}
    \cup {<<"array", m>> : m \in MessageArrays}

\* the rows both direct-chat handlers insert: the caller's last turn, then
\* the reply
ChatRows(student_id, messages, aiMessage) ==
    <<[student_id |-> student_id, role |-> Some("user"),
       content |-> Some(messages[Len(messages)].content)],
      [student_id |-> student_id, role |-> Some("assistant"),
       content |-> aiMessage]>>

----------------------------------------------------------------------------
(* ai-chat, minimal handler, src/unnamed/part_001 *)

AiChatBodies ==
    {UnparseableBody}
    \cup {ChatBody(f[1], f[2], id, Null) :
            f \in MessageFields,
            id \in {Null} \cup {Some(u) : u \in StudentIds}}

\* line 92: data?.choices?.[0]?.message?.content ?? data?.message ??
\*          JSON.stringify(data).slice(0,2000)
FallbackMessage(outcome) ==
    IF outcome.kind \in {"choices", "message_only"} THEN outcome.content
    ELSE IF outcome.kind = "other_json" THEN Some("{raw json}")
    ELSE Some("null")

\* line 95
AiChatId(providedStudentId) ==
    <<"chat", "Date.now()",
      IF providedStudentId = Null THEN "anon" ELSE providedStudentId[1]>>

AiChatFailure(r, message) ==
    Respond(r, InternalErrorStatus,
            [error |-> <<"Sorry, I encountered an error. Please try again in a moment.">>,
             details |-> message])

AiChatReply(q, r) ==
    [Respond(r, OkStatus,
             [message |-> q.aiMessage,
              chat_id |-> AiChatId(q.body.student_id)])
       EXCEPT !.aiMessage = q.aiMessage, !.timer = q.timer,
              !.upstream = q.upstream, !.gateway_kind = q.gateway_kind,
              !.gateway_status = q.gateway_status]

\* lines 15-72: validate the body, create the client when configured,
\* require the API key, arm the timeout and call out
AiChatReceive(r, bodies) ==
    /\ req[r].pc = "idle"
    /\ \E body \in bodies, mode \in UpstreamModes :
         LET started == [IdleRequest EXCEPT !.handler = "ai_chat",
                                            !.body = body]
             answered(q) == [started EXCEPT !.pc = "done",
                                            !.response = q.response]
         IN req' =
              IF ~body.json \/ body.messages_kind # "array"
              THEN [req EXCEPT ![r] =
                      answered(Respond(r, BadRequestStatus,
                          [error |-> <<"Missing messages array in body">>]))]
              ELSE IF ~env.OPENROUTER_API_KEY
              THEN [req EXCEPT ![r] =
                      [answered(AiChatFailure(r,
                                    <<"Missing OpenRouter API key">>))
                         EXCEPT !.supabase = env.SUPABASE]]
              ELSE [req EXCEPT ![r] =
                      [started EXCEPT !.supabase = env.SUPABASE,
                                      !.timer = "armed",
                                      !.upstream = mode,
                                      !.gateway_calls = 1,
                                      !.pc = "await_gateway"]]
    /\ UNCHANGED <<chat_messages, env, db, ui>>

AiChatGatewayReturns_Retry(r, outcome) ==
    /\ req[r].handler = "ai_chat"
    /\ req[r].pc = "await_gateway"
    /\ req[r].upstream = "live"
    /\ req[r].timer = "armed"
    /\ req' =
         IF outcome.kind \in {"network_error", "http_error"}
         THEN IF req[r].gateway_calls < 2
              THEN [req EXCEPT ![r].gateway_calls = @ + 1]
              ELSE [req EXCEPT ![r] =
                      [Respond(r, BadGatewayStatus,
                               [error |-> <<"AI provider fetch failed">>])
                         EXCEPT !.upstream = "settled", !.timer = "cleared",
                                !.gateway_kind = outcome.kind,
                                !.gateway_status = outcome.status]]
         ELSE [req EXCEPT ![r] =
                 AiChatReply([req[r] EXCEPT
                                !.upstream = "settled", !.timer = "cleared",
                                !.gateway_kind = outcome.kind,
                                !.gateway_status = outcome.status,
                                !.aiMessage = FallbackMessage(outcome)], r)]
    /\ UNCHANGED <<chat_messages, env, db, ui>>

\* lines 73-120: the fetch settles before the timeout; translate failures,
\* read the reply, issue the best-effort insert
AiChatGatewayReturns(r, outcome) ==
    /\ req[r].handler = "ai_chat"
    /\ req[r].pc = "await_gateway"
    /\ req[r].upstream = "live"
    /\ req[r].timer = "armed"
    /\ LET settled == [req[r] EXCEPT !.upstream = "settled",
                                     !.timer = "cleared",
                                     !.gateway_kind = outcome.kind,
                                     !.gateway_status = outcome.status]
           failed(message) ==
               [settled EXCEPT
                  !.pc = "done",
                  !.response = Respond(r, BadGatewayStatus,
                                       [error |-> message]).response]
           replied == [settled EXCEPT !.aiMessage = FallbackMessage(outcome)]
       IN req' =
            IF outcome.kind = "network_error"
            THEN [req EXCEPT ![r] = failed(<<"AI provider fetch failed">>)]
            ELSE IF outcome.kind = "http_error"
            THEN [req EXCEPT ![r] =
                    failed(<<"AI provider error ", outcome.status>>)]
            ELSE IF ~replied.supabase \/ replied.body.messages = <<>>
            THEN [req EXCEPT ![r] = AiChatReply(replied, r)]
            ELSE [req EXCEPT ![r] =
                    [replied EXCEPT
                       !.pending_rows =
                           ChatRows(replied.body.student_id,
                                    replied.body.messages,
                                    replied.aiMessage),
                       !.pc = "await_insert"]]
    /\ UNCHANGED <<chat_messages, env, db, ui>>

\* lines 52, 73-78: the timeout fires first; abort the call, answer 504
AiChatTimeoutFires(r) ==
    /\ req[r].handler = "ai_chat"
    /\ req[r].pc = "await_gateway"
    /\ req[r].timer = "armed"
    /\ req' = [req EXCEPT ![r] =
                 [Respond(r, TimeoutStatus,
                          [error |-> <<"AI provider timeout">>])
                    EXCEPT !.timer = "fired", !.upstream = "aborted"]]
    /\ UNCHANGED <<chat_messages, env, db, ui>>

AiChatInsertReturns_RowByRow(r, outcome) ==
    /\ req[r].handler = "ai_chat"
    /\ req[r].pc = "await_insert"
    /\ LET rows == StoredRows(<<Head(req[r].pending_rows)>>, outcome)
       IN /\ chat_messages' = chat_messages \o rows
          /\ req' = IF Len(req[r].pending_rows) > 1
                    THEN [req EXCEPT
                            ![r].pending_rows = Tail(@),
                            ![r].stored = @ \o rows]
                    ELSE [req EXCEPT ![r] =
                            [AiChatReply(req[r], r)
                               EXCEPT !.stored = req[r].stored \o rows,
                                      !.insert_outcome = outcome]]
    /\ UNCHANGED <<env, db, ui>>

\* lines 99-131: the insert settles, whatever its outcome; answer 200
AiChatInsertReturns(r, outcome) ==
    /\ req[r].handler = "ai_chat"
    /\ req[r].pc = "await_insert"
    /\ LET rows == StoredRows(req[r].pending_rows, outcome)
       IN /\ chat_messages' = chat_messages \o rows
          /\ req' = [req EXCEPT ![r] =
                       [AiChatReply(req[r], r)
                          EXCEPT !.stored = rows,
                                 !.insert_outcome = outcome]]
    /\ UNCHANGED <<env, db, ui>>

----------------------------------------------------------------------------
(* The context assembler of the context-enriched handler,                  *)
(* src/unnamed/part_002 lines 40-85                                        *)

DefaultRegion == "Nkangala"

\* JavaScript truthiness of an optional string
JsTruthyString(t) == t # Null /\ t[1] # ""

\* .single(): the row when exactly one matches, else null
Single(rows) ==
    IF Cardinality(rows) = 1 THEN Some(CHOOSE x \in rows : TRUE) ELSE Null

ProfileOf(user) == Single({p \in db.profiles : p.id = user})

Region_ProfileOnly(profile) ==
    IF profile # Null /\ profile[1].municipality # Null
    THEN profile[1].municipality[1]
    ELSE DefaultRegion

\* profile?.municipality || 'Nkangala'
Region(profile) ==
    IF profile # Null /\ JsTruthyString(profile[1].municipality)
    THEN profile[1].municipality[1]
    ELSE DefaultRegion

\* .order('recorded_at', { ascending: false })
RECURSIVE NewestFirst(_)
NewestFirst(rows) ==
    IF rows = {} THEN <<>>
    ELSE LET newest == CHOOSE x \in rows :
                           \A y \in rows : y.recorded_at <= x.recorded_at
         IN <<newest>> \o NewestFirst(rows \ {newest})

\* .limit(n) of an ordered result
Limit(rows, n) == SubSeq(rows, 1, IF Len(rows) < n THEN Len(rows) ELSE n)

RecentPerformance(user) ==
    Limit(NewestFirst({x \in db.performance_records : x.student_id = user}),
          PerformanceLimit)

\* the rows of a table at the positions I, in table order
RECURSIVE Pick(_, _)
Pick(rows, I) ==
    IF I = {} THEN <<>>
    ELSE LET i == CHOOSE x \in I : \A y \in I : x <= y
         IN <<rows[i]>> \o Pick(rows, I \ {i})

\* .limit(n) of a result with no ORDER BY: any n of the matching rows
AnyLimit(rows, n) ==
    LET k == IF Len(rows) < n THEN Len(rows) ELSE n
    IN {Pick(rows, I) : I \in {J \in SUBSET (1..Len(rows)) :
                                   Cardinality(J) = k}}

InRegion(row, region) == row.municipality = Some(region) /\ row.available

AvailableMentors(region) ==
    AnyLimit(SelectSeq(db.mentors, LAMBDA m : InRegion(m, region)),
             MentorLimit)

AvailableResources(region) ==
    SelectSeq(db.support_resources, LAMBDA x : InRegion(x, region))

PerformanceLine(x) ==
    [subject |-> x.subject, score |-> x.score,
     attendance |-> IF Truthy(x.attendance_percentage)
                    THEN x.attendance_percentage ELSE Some("N/A")]

MentorLine(m) ==
    [name |-> m.name, expertise |-> m.expertise, location |-> m.location]

ResourceLine(x) ==
    [name |-> x.name, resource_type |-> x.resource_type,
     description |-> x.description]

\* list?.map(line): undefined for null, else one line per row
PerformanceLines(list) ==
    IF list = Null THEN Null
    ELSE Some([i \in 1..Len(list[1]) |-> PerformanceLine(list[1][i])])

MentorLines(list) ==
    IF list = Null THEN Null
    ELSE Some([i \in 1..Len(list[1]) |-> MentorLine(list[1][i])])

ResourceLines(list) ==
    IF list = Null THEN Null
    ELSE Some([i \in 1..Len(list[1]) |-> ResourceLine(list[1][i])])

\* lines.join('\n') || placeholder : every line starts with "- ", so the
\* joined text is the empty (falsy) string exactly for no lines
Section(lines, placeholder) ==
    IF lines # Null /\ lines[1] # <<>>
    THEN [text |-> "list", lines |-> lines[1]]
    ELSE [text |-> placeholder, lines |-> <<>>]

StudentContext_NullOnly(fetched) ==
    LET Shown(lines, placeholder) ==
            IF lines # Null
            THEN [text |-> "list", lines |-> lines[1]]
            ELSE [text |-> placeholder, lines |-> <<>>]
    IN [performance |-> Shown(PerformanceLines(fetched.recentPerformance),
                              "No recent records"),
        mentors |-> Shown(MentorLines(fetched.mentors),
                          "No mentors available"),
        resources |-> Shown(ResourceLines(fetched.resources),
                            "No resources available")]

\* lines 70-85
StudentContext(fetched) ==
    [performance |-> Section(PerformanceLines(fetched.recentPerformance),
                             "No recent records"),
     mentors |-> Section(MentorLines(fetched.mentors),
                         "No mentors available"),
     resources |-> Section(ResourceLines(fetched.resources),
                           "No resources available")]

----------------------------------------------------------------------------
(* Table contents *)

ProfileRow(id, municipality) ==
    [id |-> id, full_name |-> "Student", location |-> "",
     municipality |-> municipality, grade |-> Some(10),
     school_name |-> Some("")]

\* the i-th record of a student; attendance is absent, 0 or a percentage
PerformanceRecord(student, i) ==
    [student_id |-> student, subject |-> "Maths", score |-> 10 * i,
     attendance_percentage |->
         IF i % 3 = 0 THEN Null ELSE IF i % 3 = 1 THEN Some(0) ELSE Some(90),
     recorded_at |-> i]

Mentor(i, municipality, available) ==
    [name |-> i, expertise |-> "Maths", location |-> "Township",
     municipality |-> municipality, available |-> available]

Resource(i, municipality, available) ==
    [name |-> i, resource_type |-> "tutoring", description |-> "help",
     location |-> Some("Township"),
     municipality |-> municipality, available |-> available]

\* the last statement a signed-in client sent to the database: who
\* auth.uid() was, what the statement was and whether it changed a row
NoSession == [auth_uid |-> Null, statement |-> "none", outcome |-> "none"]

\* a data store whose known student has the profiles p, n performance
\* records and k available mentors in the default region
Db(p, k, n, withResources) ==
    [auth_users |-> Users,
     session |-> NoSession,
     profiles |-> p,
     performance_records |->
         {PerformanceRecord("u1", i) : i \in 1..n}
         \cup {PerformanceRecord("u9", n + 1)},
     mentors |->
         [i \in 1..k |-> Mentor(i, Some(DefaultRegion), TRUE)]
         \o <<Mentor(k + 1, Some(DefaultRegion), FALSE),
              Mentor(k + 2, Some("Gert Sibande"), TRUE),
              Mentor(k + 3, Null, TRUE)>>,
     support_resources |->
         IF withResources
         THEN <<Resource(1, Some(DefaultRegion), TRUE),
                Resource(2, Some(DefaultRegion), FALSE),
                Resource(3, Some("Gert Sibande"), TRUE),
                Resource(4, Some(DefaultRegion), TRUE)>>
         ELSE <<>>]

\* the profile handle_new_user creates for a sign-up without metadata
DefaultDb == Db({ProfileRow("u1", Some(""))}, 1, 1, TRUE)

----------------------------------------------------------------------------
(* Accounts and profiles, src/unnamed/part_000 lines 2-27 and 107-130 *)

Accounts == {"u1", "u2", "u3"}

\* who a client's token says it is: any account, or nobody (anon key)
Callers == {Null} \cup {Some(a) : a \in Accounts}

\* raw_user_meta_data of a sign-up: municipality and grade may be absent,
\* and grade may be text that does not cast to INTEGER
SignUpMetadata ==
    [municipality : {Null, Some("Gert Sibande")},
     grade : {Null, Some("11"), Some("abc")}]

ProfileUpdates == {Null, Some(""), Some(DefaultRegion)}

ProfileRowsOf(id) == {p \in db.profiles : p.id = id}

\* lines 114-121: the row handle_new_user inserts
NewUserProfile(id, meta) ==
    [ProfileRow(id, IF meta.municipality = Null THEN Some("")
                    ELSE meta.municipality)
       EXCEPT !.grade = IF meta.grade = Null THEN Some(10) ELSE Some(11)]

\* line 119: the cast raises for text that is not a number
TriggerFails(meta) == meta.grade = Some("abc")

\* line 3: PRIMARY KEY and REFERENCES auth.users, against the tables t
ProfileKeysHold(row, rows, users) ==
    /\ row.id \in users
    /\ \A p \in rows : p.id # row.id

Statement(caller, statement, applied) ==
    [auth_uid |-> caller, statement |-> statement,
     outcome |-> IF applied THEN "applied" ELSE "refused"]

\* lines 127-130 with 108-125: the auth service inserts the account and the
\* trigger inserts its profile in the same transaction
SignUp(id, meta) ==
    /\ id \notin db.auth_users
    /\ LET row == NewUserProfile(id, meta)
           done == /\ ~TriggerFails(meta)
                   /\ ProfileKeysHold(row, db.profiles,
                                      db.auth_users \cup {id})
       IN db' = [db EXCEPT
                   !.auth_users = IF done THEN @ \cup {id} ELSE @,
                   !.profiles = IF done THEN @ \cup {row} ELSE @,
                   !.session = Statement(Null, "sign_up", done)]
    /\ UNCHANGED <<chat_messages, env, req, ui>>

ProfileInsertAllowed_NoPrimaryKey(caller, row) ==
    /\ caller = Some(row.id)
    /\ row.id \in db.auth_users

\* lines 25-27 (WITH CHECK auth.uid() = id) and line 3
ProfileInsertAllowed(caller, row) ==
    /\ caller = Some(row.id)
    /\ ProfileKeysHold(row, db.profiles, db.auth_users)

\* a client inserts a profile row
ProfileInsert(caller, row) ==
    /\ LET done == ProfileInsertAllowed(caller, row)
       IN db' = [db EXCEPT
                   !.profiles = IF done THEN @ \cup {row} ELSE @,
                   !.session = Statement(caller, "insert", done)]
    /\ UNCHANGED <<chat_messages, env, req, ui>>

\* lines 21-23: USING (auth.uid() = id) selects the rows a client may
\* update and, with no WITH CHECK given, also checks the new rows
ProfileUpdatable(caller, row) == caller = Some(row.id)

\* a client updates the profiles whose id is target, setting the
\* municipality and the id
ProfileUpdate(caller, target, newId, municipality) ==
    /\ LET old == {p \in ProfileRowsOf(target) : ProfileUpdatable(caller, p)}
           new == {[p EXCEPT !.id = newId, !.municipality = municipality] :
                      p \in old}
           done == /\ old # {}
                   /\ \A p \in new :
                         /\ ProfileUpdatable(caller, p)
                         /\ ProfileKeysHold(p, db.profiles \ old,
                                            db.auth_users)
       IN db' = [db EXCEPT
                   !.profiles = IF done THEN (@ \ old) \cup new ELSE @,
                   !.session = Statement(caller, "update", done)]
    /\ UNCHANGED <<chat_messages, env, req, ui>>

\* lines 14-27: row level security is on and no policy is FOR DELETE, so a
\* client's delete sees no row
ProfileDelete(caller, target) ==
    /\ db' = [db EXCEPT !.session = Statement(caller, "delete", FALSE)]
    /\ UNCHANGED <<chat_messages, env, req, ui>>

\* lines 3, 32 and 91: ON DELETE CASCADE when an account is removed
DeleteUser(id) ==
    /\ id \in db.auth_users
    /\ db' = [db EXCEPT
                !.auth_users = @ \ {id},
                !.profiles = {p \in @ : p.id # id},
                !.performance_records = {x \in @ : x.student_id # id},
                !.session = Statement(Null, "delete_user", TRUE)]
    /\ chat_messages' =
          SelectSeq(chat_messages, LAMBDA m : m.student_id # Some(id))
    /\ UNCHANGED <<env, req, ui>>

----------------------------------------------------------------------------
(* The web client's writes to chat_messages: src/src/pages/Performance.tsx  *)
(* lines 166-179 and src/src/components/ChatInterface.tsx lines 53-86       *)

\* (user.id || '').split(':')[0] : the id up to its first colon
BeforeColon(id) ==
    CASE id = "u1:1" -> "u1"
      [] id = "" -> ""
      [] OTHER -> id

\* part_000 lines 103-105 with 89-95: WITH CHECK (auth.uid() = student_id)
\* on top of the table's constraints
ClientInsertAccepted(caller, rows) ==
    /\ InsertAccepted(rows)
    /\ \A i \in 1..Len(rows) : rows[i].student_id = caller

ClientStoredRows(caller, rows, outcome) ==
    IF outcome = "applied" /\ ClientInsertAccepted(caller, rows)
    THEN rows ELSE <<>>

ClientRow(userId, role, content) ==
    [student_id |-> Some(userId), role |-> Some(role),
     content |-> Some(content)]

\* Performance.tsx lines 166-179: the analysis page stores the marks
\* message and the analysis for the signed-in user in one insert
AnalysisPersist(caller, outcome) ==
    /\ Len(chat_messages) < MaxLog
    /\ caller # Null
    /\ LET userId == BeforeColon(caller[1])
           rows == <<ClientRow(userId, "user", "marks"),
                     ClientRow(userId, "assistant", "analysis")>>
           stored == ClientStoredRows(caller, rows, outcome)
       IN /\ chat_messages' = chat_messages \o stored
          /\ db' = [db EXCEPT
                      !.session = Statement(caller, "insert", stored # <<>>)]
    /\ UNCHANGED <<env, req, ui>>

\* ChatInterface.tsx lines 60-72: the caller's rows with this role and
\* content, as the read returns them (none when the read fails)
HasSimilar(recent, role, content) ==
    \E i \in 1..Len(recent) :
       recent[i].role = Some(role) /\ recent[i].content = Some(content)

\* ChatInterface.tsx lines 53-86: the chat page stores the marks message
\* and the analysis it was opened with, each unless the caller's recent
\* rows hold it already; a throwing first insert skips the second
ChatUiPersist(caller, readOk, first, second) ==
    /\ Len(chat_messages) < MaxLog
    /\ caller # Null
    /\ LET userId == BeforeColon(caller[1])
           recent == IF readOk
                     THEN SelectSeq(chat_messages,
                             LAMBDA m : m.student_id = Some(userId)
                                        /\ m.student_id = caller)
                     ELSE <<>>
           userRows ==
               IF HasSimilar(recent, "user", "marks") THEN <<>>
               ELSE ClientStoredRows(
                       caller, <<ClientRow(userId, "user", "marks")>>, first)
           skipped == ~HasSimilar(recent, "user", "marks")
                      /\ first = "thrown"
           assistantRows ==
               IF skipped \/ HasSimilar(recent, "assistant", "analysis")
               THEN <<>>
               ELSE ClientStoredRows(
                       caller,
                       <<ClientRow(userId, "assistant", "analysis")>>,
                       second)
       IN /\ chat_messages' = chat_messages \o userRows \o assistantRows
          /\ db' = [db EXCEPT
                      !.session =
                         Statement(caller, "insert",
                                   userRows \o assistantRows # <<>>)]
    /\ UNCHANGED <<env, req, ui>>

ChatWritePolicy_OwnRows(caller, row) == row.student_id = caller

\* part_000 lines 97-105: row level security is on and the only policies
\* are FOR SELECT and FOR INSERT, so no row passes for UPDATE or DELETE
ChatWritePolicy(caller, row) == FALSE

\* a client's delete of chat_messages rows removes the rows it may write
ClientChatDelete(caller) ==
    /\ LET kept == SelectSeq(chat_messages,
                             LAMBDA m : ~ChatWritePolicy(caller, m))
       IN /\ chat_messages' = kept
          /\ db' = [db EXCEPT
                      !.session = Statement(caller, "delete",
                                            kept # chat_messages)]
    /\ UNCHANGED <<env, req, ui>>

\* a client's update of chat_messages rows rewrites the rows it may write
ClientChatUpdate(caller, content) ==
    /\ LET new == [i \in 1..Len(chat_messages) |->
                     IF ChatWritePolicy(caller, chat_messages[i])
                     THEN [chat_messages[i] EXCEPT !.content = Some(content)]
                     ELSE chat_messages[i]]
       IN /\ chat_messages' = new
          /\ db' = [db EXCEPT
                      !.session = Statement(caller, "update",
                                            new # chat_messages)]
    /\ UNCHANGED <<env, req, ui>>

----------------------------------------------------------------------------
(* ai-chat, context-enriched handler, src/unnamed/part_002 *)

CtxBodies ==
    {UnparseableBody}
    \cup {ChatBody(f[1], f[2], Null, a) :
            f \in MessageFields,
            a \in {Null} \cup {Some(t) : t \in Tokens}}

\* supabase.auth.getUser(token)
TokenUser(token) == IF token = "tok_u1" THEN Some("u1") ELSE Null

CtxFailure(r, message) ==
    Respond(r, InternalErrorStatus, [error |-> message])

\* lines 19-34: parse the body, require the Authorization header, create
\* the client (createClient throws without a URL), ask who the caller is
CtxReceive(r, bodies) ==
    /\ req[r].pc = "idle"
    /\ \E body \in bodies :
         LET started == [IdleRequest EXCEPT !.handler = "ai_chat_ctx",
                                            !.body = body]
             failed(message) ==
                 [started EXCEPT !.pc = "done",
                                 !.response = CtxFailure(r, message).response]
         IN req' =
              IF ~body.json
              THEN [req EXCEPT ![r] = failed(<<"Unexpected token in JSON">>)]
              ELSE IF body.authorization = Null
              THEN [req EXCEPT ![r] = failed(<<"No authorization header">>)]
              ELSE IF ~env.SUPABASE
              THEN [req EXCEPT ![r] = failed(<<"supabaseUrl is required.">>)]
              ELSE [req EXCEPT ![r] =
                      [started EXCEPT !.supabase = TRUE,
                                      !.pc = "await_auth"]]
    /\ UNCHANGED <<chat_messages, env, db, ui>>

\* lines 34-38
CtxAuthReturns(r) ==
    /\ req[r].handler = "ai_chat_ctx"
    /\ req[r].pc = "await_auth"
    /\ LET user == TokenUser(req[r].body.authorization[1])
       IN req' =
            IF user = Null
            THEN [req EXCEPT ![r] = CtxFailure(r, <<"Unauthorized">>)]
            ELSE [req EXCEPT ![r].user = user,
                             ![r].pc = "fetch_context"]
    /\ UNCHANGED <<chat_messages, env, db, ui>>

\* lines 40-124: read profile, performance, mentors and resources, build
\* the prompt, call out (no API key check, no timeout).  Each read may
\* fail, which leaves its data null; reads is the set of ways they go.
CtxFetchContextOf(r, reads) ==
    /\ req[r].handler = "ai_chat_ctx"
    /\ req[r].pc = "fetch_context"
    /\ \E mode \in UpstreamModes, ok \in reads :
         LET user == req[r].user[1]
             profile == IF ok.profile THEN ProfileOf(user) ELSE Null
             region == Region(profile)
         IN \E mentors \in (IF ok.mentors
                            THEN {Some(m) : m \in AvailableMentors(region)}
                            ELSE {Null}) :
              LET fetched ==
                      [profile |-> profile,
                       recentPerformance |->
                           IF ok.recentPerformance
                           THEN Some(RecentPerformance(user)) ELSE Null,
                       mentors |-> mentors,
                       resources |->
                           IF ok.resources
                           THEN Some(AvailableResources(region)) ELSE Null]
                  assembled ==
                      [req[r] EXCEPT !.reads = ContextReads,
                                     !.fetched = fetched,
                                     !.region = Some(region),
                                     !.context = StudentContext(fetched)]
              IN req' =
                   IF req[r].body.messages_kind # "array"
                   THEN [req EXCEPT ![r] =
                           [assembled EXCEPT
                              !.pc = "done",
                              !.response =
                                  CtxFailure(r,
                                     <<"messages is not iterable">>).response]]
                   ELSE [req EXCEPT ![r] =
                           [assembled EXCEPT !.upstream = mode,
                                             !.gateway_calls = 1,
                                             !.pc = "await_gateway"]]
    /\ UNCHANGED <<chat_messages, env, db, ui>>

\* every combination of the four reads succeeding or failing
CtxFetchContext(r) == CtxFetchContextOf(r, [DOMAIN NoFetch -> BOOLEAN])

\* lines 124-139: the fetch settles; read the reply and issue the insert.
\* An upstream that is sent "Bearer undefined" does not answer with success.
CtxGatewayReturns(r, outcome) ==
    /\ req[r].handler = "ai_chat_ctx"
    /\ req[r].pc = "await_gateway"
    /\ req[r].upstream = "live"
    /\ env.LOVABLE_API_KEY \/ outcome.kind \in {"network_error", "http_error"}
    /\ LET settled(q) == [q EXCEPT !.upstream = "settled",
                                   !.gateway_kind = outcome.kind,
                                   !.gateway_status = outcome.status]
       IN req' =
            IF outcome.kind = "network_error"
            THEN [req EXCEPT ![r] =
                    settled(CtxFailure(r, <<"fetch failed">>))]
            ELSE IF outcome.kind = "http_error"
            THEN [req EXCEPT ![r] =
                    settled(CtxFailure(r,
                        <<"AI API error: ", outcome.status>>))]
            ELSE IF outcome.kind = "unparseable"
            THEN [req EXCEPT ![r] =
                    settled(CtxFailure(r, <<"Unexpected token in JSON">>))]
            ELSE IF outcome.kind # "choices"
            THEN [req EXCEPT ![r] =
                    settled(CtxFailure(r,
                        <<"Cannot read properties of undefined">>))]
            ELSE IF req[r].body.messages = <<>>
            THEN [req EXCEPT ![r] =
                    settled([CtxFailure(r,
                                <<"Cannot read properties of undefined">>)
                               EXCEPT !.aiMessage = outcome.content])]
            ELSE [req EXCEPT ![r] =
                    settled([req[r] EXCEPT
                       !.aiMessage = outcome.content,
                       !.pending_rows =
                           ChatRows(req[r].user, req[r].body.messages,
                                    outcome.content),
                       !.pc = "await_insert"])]
    /\ UNCHANGED <<chat_messages, env, db, ui>>

\* lines 136-151: the insert settles; answer the caller
CtxInsertReturns(r, outcome) ==
    /\ req[r].handler = "ai_chat_ctx"
    /\ req[r].pc = "await_insert"
    /\ LET rows == StoredRows(req[r].pending_rows, outcome)
       IN /\ chat_messages' = chat_messages \o rows
          /\ req' =
               IF outcome = "thrown"
               THEN [req EXCEPT ![r] =
                       [CtxFailure(r, <<"insert rejected">>)
                          EXCEPT !.insert_outcome = outcome]]
               ELSE [req EXCEPT ![r] =
                       [Respond(r, OkStatus, [message |-> req[r].aiMessage])
                          EXCEPT !.stored = rows,
                                 !.insert_outcome = outcome]]
    /\ UNCHANGED <<env, db, ui>>

----------------------------------------------------------------------------
(* Initial states *)

PriorLogs ==
    {<<>>,
     <<[student_id |-> Some("u1"), role |-> Some("user"),
        content |-> Some("hello")]>>}

Environments ==
    [SUPABASE : BOOLEAN, OPENROUTER_API_KEY : BOOLEAN,
     LOVABLE_API_KEY : BOOLEAN]

TypeOK ==
    /\ env \in Environments
    /\ DOMAIN req = Requests
    /\ \A r \in Requests :
         req[r].pc \in {"idle", "fetch_context", "evaluate", "await_auth",
                        "await_gateway", "await_insert", "done"}

----------------------------------------------------------------------------
(* The intervention endpoint serving one request, for the known student    *)
(* over every pair of grades in 0..MaxGrade, and for an absent and an      *)
(* unknown student id at one low grade.                                    *)

OptionalGrades == {Null} \cup {Some(g) : g \in Grades}

IntvBodies ==
    {UnparseableBody}
    \cup {InterventionBody(Some("u1"), s, n, p) :
            s \in Subjects, n \in Grades, p \in OptionalGrades}
    \cup {InterventionBody(id, s, LowGradeThreshold - 1, Null) :
            s \in Subjects, id \in {Null, Some("u9")}}

IntvInit ==
    /\ chat_messages \in PriorLogs
    /\ env \in {e \in Environments : e.LOVABLE_API_KEY}
    /\ db = DefaultDb
    /\ req = [r \in Requests |-> IdleRequest]
    /\ ui = IdleUi

IntvNext ==
    \/ IntvReceive(1, IntvBodies)
    \/ IntvFetchContext(1)
    \/ \E mode \in UpstreamModes : IntvEvaluate(1, mode)
    \/ \E outcome \in GatewayOutcomes : IntvGatewayReturns(1, outcome)
    \/ \E outcome \in InsertOutcomes : IntvInsertReturns(1, outcome)

IntvSpec == IntvInit /\ [][IntvNext]_vars

----------------------------------------------------------------------------
(* The direct-chat endpoint (both handlers) serving one request *)

ChatInit ==
    /\ chat_messages \in PriorLogs
    /\ env \in Environments
    /\ db = DefaultDb
    /\ req = [r \in Requests |-> IdleRequest]
    /\ ui = IdleUi

ChatNext ==
    \/ AiChatReceive(1, AiChatBodies)
    \/ \E outcome \in GatewayOutcomes : AiChatGatewayReturns(1, outcome)
    \/ AiChatTimeoutFires(1)
    \/ \E outcome \in InsertOutcomes : AiChatInsertReturns(1, outcome)
    \/ CtxReceive(1, CtxBodies)
    \/ CtxAuthReturns(1)
    \/ CtxFetchContext(1)
    \/ \E outcome \in GatewayOutcomes : CtxGatewayReturns(1, outcome)
    \/ \E outcome \in InsertOutcomes : CtxInsertReturns(1, outcome)

ChatSpec == ChatInit /\ [][ChatNext]_vars

\* The runtime fires an armed timer; nothing obliges the upstream or the
\* data store to answer.
FairChatSpec ==
    ChatSpec /\ \A r \in Requests : WF_vars(AiChatTimeoutFires(r))

----------------------------------------------------------------------------
(* Properties of the intervention endpoint *)

IsIntervention(q) == q.handler = "intervention" /\ q.body.json

\* the decision as the specification words it
SpecIsLow(b) == b.new_grade < LowGradeThreshold
SpecDropped(b) ==
    b.previous_grade # Null /\ b.new_grade < b.previous_grade[1] - DropMargin
SpecSatisfactory(b) == ~SpecIsLow(b) /\ ~SpecDropped(b)

\* C1: whenever the handler triggers, the label in the prompt is
\* "First Low Grade" exactly when previous_grade is null and new_grade < 50,
\* "Low Grade" exactly when new_grade < 50 and a previous grade was supplied
\* (0 included), "Grade Drop" exactly when new_grade >= 50 and
\* new_grade < previous_grade - 10.
C1_LabelMatchesSituation ==
    \A r \in Requests :
        (IsIntervention(req[r]) /\ req[r].trigger = Some(TRUE)) =>
            LET b == req[r].body
                label == req[r].status_label
            IN /\ (label = Some("First Low Grade")) <=>
                      (b.previous_grade = Null /\ SpecIsLow(b))
               /\ (label = Some("Low Grade")) <=>
                      (b.previous_grade # Null /\ SpecIsLow(b))
               /\ (label = Some("Grade Drop")) <=>
                      (~SpecIsLow(b) /\ SpecDropped(b))

\* C2 (as claimed): for new_grade >= 50 and previous_grade null or
\* new_grade >= previous_grade - 10 the endpoint answers 200 with
\* intervention_triggered = false and reason "Grades satisfactory".
C2_SatisfactoryAnswers200 ==
    \A r \in Requests :
        (IsIntervention(req[r]) /\ req[r].pc = "done"
            /\ SpecSatisfactory(req[r].body)) =>
            /\ req[r].response.status = OkStatus
            /\ req[r].response.intervention_triggered = Some(FALSE)
            /\ req[r].response.reason = <<"Grades satisfactory">>

\* C2 (amended): for such grades the endpoint never triggers; it answers
\* 200 with reason "Grades satisfactory" when the data-store settings are
\* present and 500 with intervention_triggered = false when they are not.
C2_SatisfactoryNeverTriggers ==
    \A r \in Requests :
        (IsIntervention(req[r]) /\ req[r].pc = "done"
            /\ SpecSatisfactory(req[r].body)) =>
            /\ req[r].response.intervention_triggered = Some(FALSE)
            /\ env.SUPABASE =>
                 /\ req[r].response.status = OkStatus
                 /\ req[r].response.reason = <<"Grades satisfactory">>
                 /\ req[r].trigger = Some(FALSE)
            /\ ~env.SUPABASE =>
                 /\ req[r].response.status = InternalErrorStatus
                 /\ req[r].response.error =
                        <<"Missing Supabase environment variables">>

C2_Witness ==
    \E r \in Requests :
        /\ IsIntervention(req[r]) /\ req[r].pc = "done"
        /\ req[r].body.new_grade >= LowGradeThreshold
        /\ req[r].body.previous_grade =
               Some(req[r].body.new_grade + DropMargin)
        /\ req[r].response.status = OkStatus

\* C3: for every new_grade < 50 the evaluator triggers, whatever the
\* previous grade; such a request is never answered "Grades satisfactory".
C3_LowGradeTriggers ==
    \A r \in Requests :
        (IsIntervention(req[r]) /\ SpecIsLow(req[r].body)) =>
            /\ req[r].trigger # Null => req[r].trigger = Some(TRUE)
            /\ req[r].response.reason # <<"Grades satisfactory">>
            /\ (req[r].pc = "done" /\ env.SUPABASE) =>
                   req[r].trigger = Some(TRUE)

C3_Witness ==
    \E r \in Requests :
        /\ IsIntervention(req[r])
        /\ req[r].trigger = Some(TRUE)
        /\ req[r].body.new_grade = 0
        /\ req[r].body.previous_grade = Some(0)

\* C4: for new_grade >= 50 and a previous grade more than 10 points higher
\* the evaluator triggers with label "Grade Drop"; a drop of exactly 10
\* points does not trigger.
C4_GradeDrop ==
    \A r \in Requests :
        LET b == req[r].body IN
        (IsIntervention(req[r]) /\ req[r].trigger # Null
            /\ b.new_grade >= LowGradeThreshold /\ b.previous_grade # Null) =>
            /\ b.previous_grade[1] - b.new_grade > DropMargin =>
                 /\ req[r].trigger = Some(TRUE)
                 /\ req[r].status_label = Some("Grade Drop")
            /\ b.previous_grade[1] - b.new_grade = DropMargin =>
                 /\ req[r].trigger = Some(FALSE)
                 /\ req[r].response.reason = <<"Grades satisfactory">>

C4_Witness ==
    \E r \in Requests :
        /\ IsIntervention(req[r])
        /\ req[r].status_label = Some("Grade Drop")
        /\ req[r].body.new_grade >= LowGradeThreshold
        /\ req[r].body.previous_grade[1] - req[r].body.new_grade
               = DropMargin + 1

\* C5: a request the evaluator does not trigger on completes with
\* intervention_triggered = false, and no step of it calls the gateway or
\* changes chat_messages.
C5_NoTriggerNoEffects ==
    [][\A r \in Requests :
          (IsIntervention(req'[r]) /\ SpecSatisfactory(req'[r].body)) =>
              /\ chat_messages' = chat_messages
              /\ req'[r].gateway_calls = 0
              /\ req'[r].stored = <<>>
              /\ req'[r].pc \notin {"await_gateway", "await_insert"}
              /\ req'[r].pc = "done" =>
                     req'[r].response.intervention_triggered = Some(FALSE)]_vars

C5_Witness ==
    \E r \in Requests :
        /\ IsIntervention(req[r]) /\ req[r].pc = "done"
        /\ SpecSatisfactory(req[r].body)
        /\ req[r].body.previous_grade = Null
        /\ req[r].reads = 3
        /\ req[r].response.intervention_triggered = Some(FALSE)
        /\ chat_messages # <<>>

\* the gateway produced a reply for this request
GotReply(q) == q.aiMessage # Null

\* C6: when the evaluator triggers and the gateway answers successfully,
\* the request appends exactly one row: role assistant, content equal to
\* the reply returned, metadata {trigger, subject, grade, previous_grade};
\* and it responds 200 with intervention_triggered = true, the reply, the
\* subject and a chat_id.  (Stated for a known student and an insert that
\* reached the table.)
C6_OneTaggedAssistantRow ==
    \A r \in Requests :
        LET q == req[r] IN
        (IsIntervention(q) /\ q.pc = "done" /\ GotReply(q)
            /\ q.insert_outcome = "applied"
            /\ q.body.student_id # Null
            /\ q.body.student_id[1] \in Users) =>
            /\ q.response.status = OkStatus
            /\ q.response.intervention_triggered = Some(TRUE)
            /\ q.response.message = q.aiMessage
            /\ q.response.subject = q.body.subject
            /\ q.response.chat_id # Null
            /\ Len(q.stored) = 1
            /\ q.stored[1].role = Some("assistant")
            /\ q.stored[1].content = q.response.message
            /\ q.stored[1].metadata =
                   [trigger |-> "performance_intervention",
                    subject |-> q.body.subject,
                    grade |-> q.body.new_grade,
                    previous_grade |-> q.body.previous_grade]

\* C8: once the gateway has produced a reply, a failure of the log write
\* never fails the intervention request: the caller receives 200 with
\* intervention_triggered = true and the reply.
C8_InterventionWriteFailureIsolated ==
    \A r \in Requests :
        LET q == req[r] IN
        (IsIntervention(q) /\ q.pc = "done" /\ GotReply(q)) =>
            /\ q.response.status = OkStatus
            /\ q.response.intervention_triggered = Some(TRUE)
            /\ q.response.message = q.aiMessage

----------------------------------------------------------------------------
(* Properties of the direct-chat endpoint *)

IsDirectChat(q) == q.handler \in {"ai_chat", "ai_chat_ctx"}

\* C7: in both direct-chat handlers, once the gateway has produced a reply
\* no failure of the log write (rejected or thrown insert, or an insert
\* that cannot be built because messages is empty) fails the request: the
\* caller receives 200 with the reply.
C7_ChatWriteFailureIsolated ==
    \A r \in Requests :
        LET q == req[r] IN
        (IsDirectChat(q) /\ q.pc = "done" /\ GotReply(q)) =>
            /\ q.response.status = OkStatus
            /\ q.response.message = q.aiMessage

\* C9: in both direct-chat handlers a non-success status from the upstream
\* is answered 502, never 500, and nothing is written to the log.
C9_UpstreamErrorIs502 ==
    \A r \in Requests :
        LET q == req[r] IN
        (IsDirectChat(q) /\ q.gateway_kind = "http_error") =>
            /\ q.pc = "done"
            /\ q.response.status = BadGatewayStatus
            /\ q.response.status # InternalErrorStatus
            /\ q.stored = <<>>
            /\ chat_messages \in PriorLogs

\* C10: a direct-chat request whose upstream never responds is eventually
\* aborted by its timeout and answered 504; and whenever a handler has
\* returned, its timer is cleared or has fired and no outbound call is
\* pending.
C10_SilentUpstreamTimesOut ==
    /\ \A r \in Requests :
         (IsDirectChat(req[r]) /\ req[r].pc = "await_gateway"
             /\ req[r].upstream = "silent")
           ~> (/\ req[r].pc = "done"
               /\ req[r].response.status = TimeoutStatus
               /\ req[r].upstream = "aborted")
    /\ [](\A r \in Requests :
            (IsDirectChat(req[r]) /\ req[r].pc = "done") =>
                /\ req[r].timer # "armed"
                /\ req[r].upstream \notin UpstreamModes)

----------------------------------------------------------------------------
(* All three endpoints, one request at a time.  The intervention bodies    *)
(* are the scenarios of the specification and the ids no user owns.        *)

ServerIntvBodies ==
    {UnparseableBody}
    \cup {InterventionBody(Some("u1"), s, g[1], g[2]) :
            s \in Subjects,
            g \in {<<45, Null>>, <<40, Some(60)>>, <<70, Some(85)>>,
                   <<78, Some(80)>>}}
    \cup {InterventionBody(id, s, LowGradeThreshold - 1, Null) :
            s \in Subjects, id \in {Null, Some("u9")}}

ServerInit ==
    /\ chat_messages \in PriorLogs
    /\ env \in Environments
    /\ db = DefaultDb
    /\ req = [r \in Requests |-> IdleRequest]
    /\ ui = IdleUi

ServerNext ==
    \/ IntvReceive(1, ServerIntvBodies)
    \/ IntvFetchContext(1)
    \/ \E mode \in UpstreamModes : IntvEvaluate(1, mode)
    \/ \E outcome \in GatewayOutcomes : IntvGatewayReturns(1, outcome)
    \/ \E outcome \in InsertOutcomes : IntvInsertReturns(1, outcome)
    \/ AiChatReceive(1, AiChatBodies)
    \/ \E outcome \in GatewayOutcomes : AiChatGatewayReturns(1, outcome)
    \/ AiChatTimeoutFires(1)
    \/ \E outcome \in InsertOutcomes : AiChatInsertReturns(1, outcome)
    \/ CtxReceive(1, CtxBodies)
    \/ CtxAuthReturns(1)
    \/ CtxFetchContext(1)
    \/ \E outcome \in GatewayOutcomes : CtxGatewayReturns(1, outcome)
    \/ \E outcome \in InsertOutcomes : CtxInsertReturns(1, outcome)

ServerSpec == ServerInit /\ [][ServerNext]_vars

----------------------------------------------------------------------------
(* Properties of the orchestration paths *)

\* C11: a direct-chat request whose body has no messages field, a messages
\* field that is not an array, or is not parseable JSON is answered 400
\* with no gateway call and no log write, in both handlers.
C11_BadBodyIs400 ==
    \A r \in Requests :
        LET q == req[r] IN
        (IsDirectChat(q) /\ (~q.body.json \/ q.body.messages_kind # "array")) =>
            /\ q.gateway_calls = 0
            /\ q.stored = <<>>
            /\ q.pc \notin {"await_gateway", "await_insert"}
            /\ q.pc = "done" => q.response.status = BadRequestStatus

\* the API key a handler sends upstream is not set
KeyAbsent(q) ==
    \/ q.handler \in {"intervention", "ai_chat"} /\ ~env.OPENROUTER_API_KEY
    \/ q.handler = "ai_chat_ctx" /\ ~env.LOVABLE_API_KEY

\* the request is one its handler would forward to the gateway
WouldCallGateway(q) ==
    /\ q.body.json
    /\ q.handler = "intervention" =>
           env.SUPABASE /\ ~SpecSatisfactory(q.body)
    /\ q.handler = "ai_chat" => q.body.messages_kind = "array"
    /\ q.handler = "ai_chat_ctx" =>
           /\ q.body.messages_kind = "array" /\ env.SUPABASE
           /\ q.body.authorization # Null
           /\ TokenUser(q.body.authorization[1]) # Null

\* C12: when the AI-gateway API key is absent, every path that would call
\* the gateway fails with status 500 before any network call: no
\* data-store read, no gateway request, no log write.
C12_MissingKeyFailsFast ==
    \A r \in Requests :
        LET q == req[r] IN
        (q.handler # "none" /\ KeyAbsent(q) /\ WouldCallGateway(q)) =>
            /\ q.reads = 0
            /\ q.gateway_calls = 0
            /\ q.stored = <<>>
            /\ q.pc = "done" => q.response.status = InternalErrorStatus

\* C13: when the upstream answers with a success status and a body that
\* does not parse or has no choices[0].message.content, every path
\* degrades to the raw-JSON string as its reply and answers 200.
C13_MalformedBodyDegrades ==
    \A r \in Requests :
        LET q == req[r] IN
        (q.handler # "none"
            /\ q.gateway_kind \in {"other_json", "unparseable"}) =>
            /\ q.aiMessage \in {Some("{raw json}"), Some("null")}
            /\ q.pc = "done" =>
                 /\ q.response.status = OkStatus
                 /\ q.response.message = q.aiMessage

\* the student a direct-chat handler stores rows under
ChatStudent(q) ==
    IF q.handler = "ai_chat" THEN q.body.student_id ELSE q.user

\* C14: a successful direct-chat request appends exactly two rows, a user
\* row with the content of the caller's last turn, then an assistant row
\* with the reply, and responds 200 with the reply and a chat_id, in both
\* handlers.  (Stated for a known student and an insert that reached the
\* table.)
C14_TwoRowsAndChatId ==
    \A r \in Requests :
        LET q == req[r]
            m == q.body.messages
        IN
        (IsDirectChat(q) /\ q.pc = "done" /\ q.response.status = OkStatus
            /\ q.insert_outcome = "applied"
            /\ ChatStudent(q) # Null /\ ChatStudent(q)[1] \in Users) =>
            /\ Len(q.stored) = 2
            /\ q.stored[1] = [student_id |-> ChatStudent(q),
                              role |-> Some("user"),
                              content |-> Some(m[Len(m)].content)]
            /\ q.stored[2] = [student_id |-> ChatStudent(q),
                              role |-> Some("assistant"),
                              content |-> q.response.message]
            /\ q.response.message = q.aiMessage
            /\ q.response.chat_id # Null

\* a cause of failure of the intervention endpoint
InterventionFailed(q) ==
    \/ ~q.body.json
    \/ ~env.SUPABASE
    \/ q.trigger = Some(TRUE) /\ ~env.OPENROUTER_API_KEY
    \/ q.gateway_kind \in {"network_error", "http_error", "unparseable",
                           "other_json", "message_only"}
    \/ q.insert_outcome = "thrown"

C16_NoRetry ==
    [][\A r \in Requests :
          /\ req'[r].gateway_calls <= 1
          /\ req[r].pc = "done" => req'[r] = req[r]
          /\ req'[r].gateway_kind \in {"network_error", "http_error"} =>
               /\ req'[r].pc = "done"
               /\ req'[r].response.status
                      \in {BadGatewayStatus, InternalErrorStatus}
               /\ req'[r].response.error # Null]_vars

C16_Witness ==
    \E r \in Requests :
        /\ req[r].handler = "ai_chat" /\ req[r].pc = "done"
        /\ req[r].gateway_kind = "http_error"
        /\ req[r].gateway_calls = 1
        /\ req[r].response.status = BadGatewayStatus

----------------------------------------------------------------------------
(* The context-enriched handler over data stores that differ in the        *)
(* student's profile, mentors, performance records and resources           *)

ProfileVariants ==
    {{}}
    \cup {{ProfileRow("u1", m)} :
            m \in {Null, Some(""), Some(DefaultRegion), Some("Gert Sibande")}}

ContextDbs ==
    {Db(p, k, 1, w) :
        p \in ProfileVariants, k \in 0..MaxMentors, w \in BOOLEAN}
    \cup {Db({ProfileRow("u1", Some(""))}, MaxMentors, n, w) :
            n \in 0..MaxRecords, w \in BOOLEAN}

ContextBodies ==
    {ChatBody(f[1], f[2], Null, Some("tok_u1")) :
        f \in {<<"absent", <<>>>>,
               <<"array", <<[role |-> "user", content |-> "m1"]>>>>}}

ContextInit ==
    /\ chat_messages = <<>>
    /\ env \in {e \in Environments : e.SUPABASE /\ e.LOVABLE_API_KEY}
    /\ db \in ContextDbs
    /\ req = [r \in Requests |-> IdleRequest]
    /\ ui = IdleUi

ContextNext ==
    \/ CtxReceive(1, ContextBodies)
    \/ CtxAuthReturns(1)
    \/ CtxFetchContext(1)
    \/ \E outcome \in GatewayOutcomes : CtxGatewayReturns(1, outcome)
    \/ \E outcome \in InsertOutcomes : CtxInsertReturns(1, outcome)

ContextSpec == ContextInit /\ [][ContextNext]_vars

----------------------------------------------------------------------------
(* Context Assembler properties *)

Assembled(r) == req[r].reads = ContextReads

NoRows(list) == list = Null \/ list[1] = <<>>

\* the assembler went on to the gateway call: nothing was thrown
AssemblerPassed(r) ==
    (/\ req[r].body.messages_kind = "array"
     /\ req[r].gateway_kind = "none")
    => /\ req[r].pc = "await_gateway"
       /\ req[r].response = NoResponse

SectionRight(section, list, placeholder) ==
    /\ section.text = placeholder <=> NoRows(list)
    /\ section.text # placeholder => Len(section.lines) = Len(list[1])

\* C17: each of the three list sections shows its placeholder sentence
\* exactly when its own fetch returned null or no rows, whatever the other
\* two fetches returned, and the handler goes on to the gateway call.
C17_PlaceholderIffNoRows ==
    \A r \in Requests :
       Assembled(r) =>
         /\ SectionRight(req[r].context.performance,
                         req[r].fetched.recentPerformance,
                         "No recent records")
         /\ SectionRight(req[r].context.mentors, req[r].fetched.mentors,
                         "No mentors available")
         /\ SectionRight(req[r].context.resources, req[r].fetched.resources,
                         "No resources available")
         /\ (\/ NoRows(req[r].fetched.recentPerformance)
             \/ NoRows(req[r].fetched.mentors)
             \/ NoRows(req[r].fetched.resources)) => AssemblerPassed(r)

\* zero performance records (an empty list) beside listed mentors and a
\* failed resources read
C17_Witness ==
    \E r \in Requests :
       /\ Assembled(r)
       /\ req[r].pc = "await_gateway"
       /\ req[r].fetched.recentPerformance = Some(<<>>)
       /\ req[r].context.performance.text = "No recent records"
       /\ req[r].fetched.mentors # Null
       /\ req[r].context.mentors.text = "list"
       /\ req[r].fetched.resources = Null
       /\ req[r].context.resources.text = "No resources available"

MunicipalityUnset(profile) ==
    \/ profile = Null
    \/ profile[1].municipality \in {Null, Some("")}

AllInRegion(list, region) ==
    list # Null =>
      \A i \in 1..Len(list[1]) : InRegion(list[1][i], region)

\* the rows are the student's own, newest first, and no record left out is
\* newer than one that is listed
MostRecentNewestFirst(rows, user) ==
    /\ \A i \in 1..Len(rows) :
          rows[i] \in db.performance_records /\ rows[i].student_id = user
    /\ \A i, j \in 1..Len(rows) :
          i < j => rows[i].recorded_at > rows[j].recorded_at
    /\ \A x \in db.performance_records :
          (x.student_id = user /\ \A i \in 1..Len(rows) : rows[i] # x)
          => /\ Len(rows) = PerformanceLimit
             /\ \A i \in 1..Len(rows) : x.recorded_at < rows[i].recorded_at

\* C18: a missing profile raises no error; with the profile missing or its
\* municipality null or empty the mentor and resource lookups use
\* "Nkangala"; at most 3 available mentors are returned, and at most the 5
\* most recent performance records, newest first.
C18_DefaultRegionAndLimits ==
    \A r \in Requests :
       Assembled(r) =>
         /\ req[r].fetched.profile = Null => AssemblerPassed(r)
         /\ MunicipalityUnset(req[r].fetched.profile)
            => req[r].region = Some("Nkangala")
         /\ AllInRegion(req[r].fetched.mentors, req[r].region[1])
         /\ AllInRegion(req[r].fetched.resources, req[r].region[1])
         /\ req[r].fetched.mentors # Null
            => Len(req[r].fetched.mentors[1]) <= MentorLimit
         /\ req[r].fetched.recentPerformance # Null
            => /\ Len(req[r].fetched.recentPerformance[1])
                    <= PerformanceLimit
               /\ MostRecentNewestFirst(req[r].fetched.recentPerformance[1],
                                        req[r].user[1])

\* a profile whose municipality is the empty string, more matching mentors
\* and more records than the limits allow
C18_Witness ==
    \E r \in Requests :
       /\ Assembled(r)
       /\ req[r].pc = "await_gateway"
       /\ req[r].fetched.profile # Null
       /\ req[r].fetched.profile[1].municipality = Some("")
       /\ req[r].region = Some("Nkangala")
       /\ req[r].fetched.mentors # Null
       /\ Len(req[r].fetched.mentors[1]) = MentorLimit
       /\ Len(SelectSeq(db.mentors,
                        LAMBDA m : InRegion(m, "Nkangala"))) > MentorLimit
       /\ req[r].fetched.recentPerformance # Null
       /\ Len(req[r].fetched.recentPerformance[1]) = PerformanceLimit
       /\ Cardinality({x \in db.performance_records :
                          x.student_id = "u1"}) > PerformanceLimit

----------------------------------------------------------------------------
(* Sign-ups, account removals and clients' statements on profiles, from a  *)
(* database with no accounts                                               *)

ProfileInit ==
    /\ chat_messages = <<>>
    /\ env \in {e \in Environments : e.SUPABASE /\ e.LOVABLE_API_KEY
                                     /\ e.OPENROUTER_API_KEY}
    /\ db = [Db({}, 0, 0, FALSE) EXCEPT !.auth_users = {},
                                        !.performance_records = {}]
    /\ req = [r \in Requests |-> IdleRequest]
    /\ ui = IdleUi

ProfileNext ==
    \/ \E id \in Accounts, meta \in SignUpMetadata : SignUp(id, meta)
    \/ \E caller \in Callers, id \in Accounts \cup {"ghost"},
          m \in ProfileUpdates :
          ProfileInsert(caller, ProfileRow(id, m))
    \/ \E caller \in Callers, target \in Accounts, newId \in Accounts,
          m \in ProfileUpdates :
          ProfileUpdate(caller, target, newId, m)
    \/ \E caller \in Callers, target \in Accounts :
          ProfileDelete(caller, target)
    \/ \E id \in Accounts : DeleteUser(id)

ProfileSpec == ProfileInit /\ [][ProfileNext]_vars

OneProfilePerUser ==
    /\ \A p \in db.profiles : p.id \in db.auth_users
    /\ \A id \in db.auth_users : Cardinality(ProfileRowsOf(id)) = 1

\* a profile row of id that was not there before the step
ProfileWritten(id) == ~(ProfileRowsOf(id)' \subseteq ProfileRowsOf(id))

OwnerOnlyStep ==
    \A id \in Accounts \cup {"ghost"} :
       ProfileWritten(id) =>
         \/ id \notin db.auth_users /\ id \in db'.auth_users
         \/ db'.session.auth_uid = Some(id)

\* C19: every account has exactly one profile row and no row lacks an
\* account; a step that adds or changes the profile row of an id is the
\* sign-up of that id or a statement sent by the user with that id, so a
\* second insert for an id leaves the table as it was.
C19_OneOwnedProfilePerUser ==
    /\ []OneProfilePerUser
    /\ [][OwnerOnlyStep]_vars

\* the owner's second insert was refused beside a profile that an update
\* had changed, with another account signed up
C19_Witness ==
    /\ {"u1", "u2"} \subseteq db.auth_users
    /\ db.session = Statement(Some("u1"), "insert", FALSE)
    /\ ProfileRowsOf("u1") = {ProfileRow("u1", Some(DefaultRegion))}
    /\ Cardinality(ProfileRowsOf("u2")) = 1

----------------------------------------------------------------------------
(* Everything that writes the conversation log: the three endpoints, the   *)
(* analysis page, the chat page, and the removal of the student's account  *)

\* who is signed in on the pages: nobody, the student, or a user whose
\* account is not in auth.users
LogCallers == {Null, Some("u1"), Some("u2")}

LogInit ==
    /\ chat_messages \in PriorLogs
    /\ env \in {e \in Environments : e.SUPABASE /\ e.LOVABLE_API_KEY
                                     /\ e.OPENROUTER_API_KEY}
    /\ db = DefaultDb
    /\ req = [r \in Requests |-> IdleRequest]
    /\ ui = IdleUi

\* one request per endpoint and kind of student id
LogIntvBodies ==
    {InterventionBody(id, "Maths", LowGradeThreshold - 1, Null) :
        id \in {Null, Some("u1"), Some("u9")}}

LogChatBodies ==
    {ChatBody("array", <<[role |-> "user", content |-> "m1"]>>, id, Null) :
        id \in {Null} \cup {Some(u) : u \in StudentIds}}

LogCtxBodies ==
    {ChatBody("array", <<[role |-> "user", content |-> "m1"]>>, Null,
              Some(t)) : t \in Tokens}

LogNext ==
    \/ IntvReceive(1, LogIntvBodies)
    \/ IntvFetchContext(1)
    \/ \E mode \in UpstreamModes : IntvEvaluate(1, mode)
    \/ \E outcome \in GatewayOutcomes : IntvGatewayReturns(1, outcome)
    \/ \E outcome \in InsertOutcomes : IntvInsertReturns(1, outcome)
    \/ AiChatReceive(1, LogChatBodies)
    \/ \E outcome \in GatewayOutcomes : AiChatGatewayReturns(1, outcome)
    \/ AiChatTimeoutFires(1)
    \/ \E outcome \in InsertOutcomes : AiChatInsertReturns(1, outcome)
    \/ CtxReceive(1, LogCtxBodies)
    \/ CtxAuthReturns(1)
    \/ CtxFetchContext(1)
    \/ \E outcome \in GatewayOutcomes : CtxGatewayReturns(1, outcome)
    \/ \E outcome \in InsertOutcomes : CtxInsertReturns(1, outcome)
    \/ \E caller \in LogCallers, outcome \in InsertOutcomes :
          AnalysisPersist(caller, outcome)
    \/ \E caller \in LogCallers, readOk \in BOOLEAN,
          first \in InsertOutcomes, second \in InsertOutcomes :
          ChatUiPersist(caller, readOk, first, second)
    \/ \E caller \in LogCallers : ClientChatDelete(caller)
    \/ \E caller \in LogCallers : ClientChatUpdate(caller, "edited")
    \/ \E id \in Users : DeleteUser(id)

LogSpec == LogInit /\ [][LogNext]_vars

LogExtended ==
    /\ Len(chat_messages') >= Len(chat_messages)
    /\ SubSeq(chat_messages', 1, Len(chat_messages)) = chat_messages

\* C21: a step of a direct-chat request, an intervention request, a marks
\* analysis, a chat page load or a client's own update or delete leaves
\* every stored row in place and unchanged; only the removal of an account
\* (which is none of these) takes rows away.
C21_AppendOnly ==
    [][db'.auth_users = db.auth_users => LogExtended]_vars

\* the row stored first is still first after later rows were appended and a
\* client's delete was refused
C21_Witness ==
    /\ Len(chat_messages) >= 3
    /\ chat_messages[1].content = Some("hello")
    /\ db.session = Statement(Some("u1"), "delete", FALSE)

----------------------------------------------------------------------------
(* Direct-chat requests of one student served at the same time, by either  *)
(* handler, their steps interleaved                                        *)

RaceTurns == {<<[role |-> "user", content |-> c]>> : c \in {"m1", "m2"}}

RaceChatBodies == {ChatBody("array", m, Some("u1"), Null) : m \in RaceTurns}

RaceCtxBodies ==
    {ChatBody("array", m, Null, Some("tok_u1")) : m \in RaceTurns}

\* the upstream answers with a reply or not at all
RaceOutcomes ==
    {o \in GatewayOutcomes : o.kind \in {"choices", "network_error"}}

AllReadsSucceed == {[f \in DOMAIN NoFetch |-> TRUE]}

RaceInit ==
    /\ chat_messages \in PriorLogs
    /\ env \in {e \in Environments : e.SUPABASE /\ e.LOVABLE_API_KEY
                                     /\ e.OPENROUTER_API_KEY}
    /\ db = DefaultDb
    /\ req = [r \in Requests |-> IdleRequest]
    /\ ui = IdleUi

RaceNext ==
    \E r \in Requests :
       \/ AiChatReceive(r, RaceChatBodies)
       \/ \E outcome \in RaceOutcomes : AiChatGatewayReturns(r, outcome)
       \/ AiChatTimeoutFires(r)
       \/ \E outcome \in InsertOutcomes : AiChatInsertReturns(r, outcome)
       \/ CtxReceive(r, RaceCtxBodies)
       \/ CtxAuthReturns(r)
       \/ CtxFetchContextOf(r, AllReadsSucceed)
       \/ \E outcome \in RaceOutcomes : CtxGatewayReturns(r, outcome)
       \/ \E outcome \in InsertOutcomes : CtxInsertReturns(r, outcome)

RaceSpec == RaceInit /\ [][RaceNext]_vars

\* the requests whose insert stored rows
Writers == {r \in Requests : req[r].stored # <<>>}

\* the rows stored before any of the requests wrote
RowsBefore == Len(chat_messages) - 2 * Cardinality(Writers)

\* the k-th pair of rows written by the requests
Pair(k) ==
    SubSeq(chat_messages, RowsBefore + 2 * k - 1, RowsBefore + 2 * k)

----------------------------------------------------------------------------
(* The Mentors and Support pages, src/unnamed/part_005 *)

\* lines 73-75
NearMentor(m, userLocation) ==
    /\ userLocation # ""
    /\ \/ m.municipality = Some(userLocation)
       \/ Includes(m.location, userLocation)

OtherMentor_MunicipalityOnly(m, userLocation) ==
    \/ userLocation = ""
    \/ m.municipality # Some(userLocation)

\* lines 76-78
OtherMentor(m, userLocation) ==
    \/ userLocation = ""
    \/ /\ m.municipality # Some(userLocation)
       /\ ~Includes(m.location, userLocation)

\* lines 271-273
NearResource(x, userLocation) ==
    /\ userLocation # ""
    /\ JsTruthyString(x.location)
    /\ \/ x.municipality = Some(userLocation)
       \/ Includes(x.location[1], userLocation)

\* lines 274-276
OtherResource(x, userLocation) ==
    \/ userLocation = ""
    \/ ~JsTruthyString(x.location)
    \/ /\ x.municipality # Some(userLocation)
       /\ ~Includes(x.location[1], userLocation)

\* mentorsByLocation / resourcesByLocation, as the page renders them
NearYou(d) ==
    IF d.page = "mentors"
    THEN SelectSeq(d.entries, LAMBDA e : NearMentor(e, d.userLocation))
    ELSE SelectSeq(d.entries, LAMBDA e : NearResource(e, d.userLocation))

\* otherMentors / otherResources
Others(d) ==
    IF d.page = "mentors"
    THEN SelectSeq(d.entries, LAMBDA e : OtherMentor(e, d.userLocation))
    ELSE SelectSeq(d.entries, LAMBDA e : OtherResource(e, d.userLocation))

\* .order('name')
RECURSIVE ByName(_)
ByName(rows) ==
    IF rows = {} THEN <<>>
    ELSE LET first == CHOOSE x \in rows : \A y \in rows : x.name <= y.name
         IN <<first>> \o ByName(rows \ {first})

\* lines 53-57 and 251-255: the available rows in name order
Listed(table) ==
    ByName({table[i] : i \in {j \in 1..Len(table) : table[j].available}})

\* lines 28-31 and 226-229: the page mounts and starts both calls
DirOpen(page) ==
    /\ ui.directory.page = "none"
    /\ ui' = [ui EXCEPT !.directory =
                [IdleDirectory EXCEPT !.page = page, !.auth = "pending",
                                      !.fetch = "pending"]]
    /\ UNCHANGED <<chat_messages, env, db, req>>

\* lines 33-49 and 231-247: without a user go to the sign-in page; with a
\* profile keep its municipality, or its location when that is empty
DirCheckAuthReturns(caller, readOk) ==
    /\ ui.directory.page \in {"mentors", "support"}
    /\ ui.directory.auth = "pending"
    /\ LET profile == IF caller # Null /\ readOk
                      THEN ProfileOf(caller[1]) ELSE Null
       IN ui' =
            IF caller = Null
            THEN [ui EXCEPT !.directory = [IdleDirectory EXCEPT
                                             !.page = "auth"]]
            ELSE IF profile = Null
            THEN [ui EXCEPT !.directory.auth = "done"]
            ELSE [ui EXCEPT
                    !.directory.auth = "done",
                    !.directory.userLocation =
                       IF JsTruthyString(profile[1].municipality)
                       THEN profile[1].municipality[1]
                       ELSE profile[1].location]
    /\ UNCHANGED <<chat_messages, env, db, req>>

\* lines 51-71 and 249-269: keep the rows unless the read failed; loading
\* ends either way
DirFetchReturns(readOk) ==
    /\ ui.directory.page \in {"mentors", "support"}
    /\ ui.directory.fetch = "pending"
    /\ LET table == IF ui.directory.page = "mentors"
                    THEN db.mentors ELSE db.support_resources
       IN ui' = [ui EXCEPT
                   !.directory.fetch = "done",
                   !.directory.loading = FALSE,
                   !.directory.entries = IF readOk THEN Listed(table) ELSE @]
    /\ UNCHANGED <<chat_messages, env, db, req>>

\* tables of one to MaxEntries rows, named in falling order, for every mix
\* of locations and municipalities, and after them a row that is not
\* available
MentorKinds ==
    [location : {"", "Nkangala", "Emalahleni, Nkangala"},
     municipality : {Null, Some("Nkangala"), Some("Emalahleni")}]

ResourceKinds ==
    [location : {Null, Some(""), Some("Nkangala"),
                 Some("Emalahleni, Nkangala")},
     municipality : {Null, Some("Nkangala"), Some("Emalahleni")}]

MentorTables ==
    UNION {{[i \in 1..(n + 1) |->
               IF i <= n
               THEN [Mentor(n + 1 - i, k[i].municipality, TRUE)
                       EXCEPT !.location = k[i].location]
               ELSE [Mentor(n + 1, Some("Nkangala"), FALSE)
                       EXCEPT !.location = "Nkangala"]] :
            k \in [1..n -> MentorKinds]} : n \in 1..MaxEntries}

ResourceTables ==
    UNION {{[i \in 1..(n + 1) |->
               IF i <= n
               THEN [Resource(n + 1 - i, k[i].municipality, TRUE)
                       EXCEPT !.location = k[i].location]
               ELSE [Resource(n + 1, Some("Nkangala"), FALSE)
                       EXCEPT !.location = Some("Nkangala")]] :
            k \in [1..n -> ResourceKinds]} : n \in 1..MaxEntries}

DirectoryProfiles ==
    {{}}
    \cup {{[ProfileRow("u1", m) EXCEPT !.location = l]} :
            m \in {Null, Some(""), Some("Nkangala")},
            l \in {"", "Emalahleni"}}

DirectoryDbs ==
    {[Db(p, 0, 0, FALSE) EXCEPT !.mentors = t] :
        p \in DirectoryProfiles, t \in MentorTables}
    \cup {[Db(p, 0, 0, FALSE) EXCEPT !.support_resources = t] :
            p \in DirectoryProfiles, t \in ResourceTables}

DirectoryInit ==
    /\ chat_messages = <<>>
    /\ env \in {e \in Environments : e.SUPABASE /\ e.LOVABLE_API_KEY
                                     /\ e.OPENROUTER_API_KEY}
    /\ db \in DirectoryDbs
    /\ req = [r \in Requests |-> IdleRequest]
    /\ ui = IdleUi

DirectoryNext ==
    \/ \E page \in {"mentors", "support"} : DirOpen(page)
    \/ \E caller \in {Null, Some("u1")}, readOk \in BOOLEAN :
          DirCheckAuthReturns(caller, readOk)
    \/ \E readOk \in BOOLEAN : DirFetchReturns(readOk)

DirectorySpec == DirectoryInit /\ [][DirectoryNext]_vars

Among(e, list) == \E i \in 1..Len(list) : list[i] = e

\* C30: on the Mentors and Support pages every fetched entry is in exactly
\* one of the "near you" list and the "other" list, for every user
\* location; with an empty user location all entries are in the "other"
\* list.
C30_ListsPartitionEntries ==
    LET d == ui.directory
    IN d.page \in {"mentors", "support"} =>
         /\ \A i \in 1..Len(d.entries) :
               Among(d.entries[i], NearYou(d)) # Among(d.entries[i], Others(d))
         /\ Len(NearYou(d)) + Len(Others(d)) = Len(d.entries)
         /\ d.userLocation = "" =>
               NearYou(d) = <<>> /\ Others(d) = d.entries

\* the Support page of a user in Nkangala lists one resource near and one,
\* without a location but of the same municipality, among the others
C30_Witness ==
    LET d == ui.directory
    IN /\ d.page = "support"
       /\ d.userLocation = "Nkangala"
       /\ Len(NearYou(d)) = 1
       /\ Len(Others(d)) = 1
       /\ Others(d)[1].location = Null
       /\ Others(d)[1].municipality = Some("Nkangala")

----------------------------------------------------------------------------
(* The Performance page, src/src/pages/Performance.tsx *)

RemoveAt(list, i) == SubSeq(list, 1, i - 1) \o SubSeq(list, i + 1, Len(list))

\* lines 108-120: analyzeMarks up to its fetch; without records it only
\* shows a toast
StartAnalysis(p) ==
    IF p.records = <<>> THEN p
    ELSE [p EXCEPT !.analyzing = TRUE, !.analysis = Null,
                   !.started = @ + 1,
                   !.runs = Append(@, [mount |-> p.mounts,
                                       n |-> Len(p.records)])]

PerfEffects_NoFlag(p) ==
    IF p.mounted /\ ~p.loading /\ p.records # <<>>
    THEN [StartAnalysis(p) EXCEPT !.autoAnalyzed = TRUE,
                                  !.auto_runs = @ + 1]
    ELSE p

\* lines 195-201: the auto-analysis effect, run after every render that
\* changed loading, records or autoAnalyzed
PerfEffects(p) ==
    IF p.mounted /\ ~p.loading /\ p.records # <<>> /\ ~p.autoAnalyzed
    THEN [StartAnalysis(p) EXCEPT !.autoAnalyzed = TRUE,
                                  !.auto_runs = @ + 1]
    ELSE p

\* lines 21-36 and 66-69: the page mounts with fresh state and fetches the
\* records; the router shows one page at a time
PerfMount ==
    /\ ~ui.perf.mounted
    /\ ui.acts < MaxActs
    /\ ui' = [ui EXCEPT
                !.acts = @ + 1,
                !.chat.mounted = FALSE,
                !.perf = [IdlePerf EXCEPT !.mounted = TRUE,
                                          !.mounts = ui.perf.mounts + 1,
                                          !.runs = ui.perf.runs,
                                          !.started = ui.perf.started,
                                          !.fetches = 1]]
    /\ UNCHANGED <<chat_messages, env, db, req>>

\* lines 43-62: the select returns the signed-in user's records, newest
\* first (part_000 lines 42-44), or fails; loading ends either way
PerfFetchReturns(readOk) ==
    /\ ui.perf.mounted
    /\ ui.perf.fetches > 0
    /\ LET rows == IF ui.session = Null THEN <<>>
                   ELSE NewestFirst({x \in db.performance_records :
                                        x.student_id = ui.session[1]})
       IN ui' = [ui EXCEPT !.perf =
                   PerfEffects([ui.perf EXCEPT
                      !.fetches = @ - 1,
                      !.loading = FALSE,
                      !.records = IF readOk THEN rows ELSE @])]
    /\ UNCHANGED <<chat_messages, env, db, req>>

\* lines 71-106: the form stores a record for the signed-in user and, when
\* that worked, fetches the records again
PerfSubmit(stored) ==
    /\ ui.perf.mounted
    /\ ui.acts < MaxActs
    /\ LET done == stored /\ ui.session # Null
                   /\ ui.session[1] \in db.auth_users
           next == 1 + Cardinality(db.performance_records)
       IN /\ db' = IF done
                   THEN [db EXCEPT !.performance_records =
                           @ \cup {PerformanceRecord(ui.session[1], next)}]
                   ELSE db
          /\ ui' = [ui EXCEPT
                      !.acts = @ + 1,
                      !.perf.fetches = IF done THEN @ + 1 ELSE @]
    /\ UNCHANGED <<chat_messages, env, req>>

\* line 277: the Analyze Marks button, disabled while analyzing or without
\* records
PerfAnalyzeClick ==
    /\ ui.perf.mounted
    /\ ui.acts < MaxActs
    /\ ~ui.perf.analyzing
    /\ ui.perf.records # <<>>
    /\ ui' = [ui EXCEPT
                !.acts = @ + 1,
                !.perf = PerfEffects([StartAnalysis(ui.perf) EXCEPT
                                         !.manual_runs = @ + 1])]
    /\ UNCHANGED <<chat_messages, env, db, req>>

\* what the analysis service answers: nothing usable (network error or a
\* status that is not ok), JSON with a message, other JSON, or text that
\* is not JSON
AnalysisOutcomes ==
    {[kind |-> "error", text |-> Null],
     [kind |-> "json_message", text |-> Some("analysis")],
     [kind |-> "json_other", text |-> Some("{raw json}")],
     [kind |-> "raw_text", text |-> Some("raw analysis")]}

\* lines 132-191: the fetch of one analyzeMarks call settles; a parsed
\* answer is shown and handed to a background insert, raw text is only
\* shown; analyzing ends either way.  A call of an earlier mount cannot
\* change what the page shows.
PerfServiceReturns(i, outcome) ==
    /\ i \in 1..Len(ui.perf.runs)
    /\ LET run == ui.perf.runs[i]
           shown == ui.perf.mounted /\ run.mount = ui.perf.mounts
           parsed == outcome.kind \in {"json_message", "json_other"}
           after == [ui.perf EXCEPT
                       !.runs = RemoveAt(@, i),
                       !.analysis = IF shown /\ outcome.kind # "error"
                                    THEN outcome.text ELSE @,
                       !.analyzing = IF shown THEN FALSE ELSE @]
       IN ui' = [ui EXCEPT
                   !.perf = PerfEffects(after),
                   !.persists =
                      IF parsed
                      THEN Append(@, [pc |-> "get_user", caller |-> Null,
                                      message |-> AnalysisRequest(run.n),
                                      text |-> outcome.text[1]])
                      ELSE @]
    /\ UNCHANGED <<chat_messages, env, db, req>>

\* lines 166-170: the background insert asks who is signed in
PersistGetUser(i) ==
    /\ i \in 1..Len(ui.persists)
    /\ ui.persists[i].pc = "get_user"
    /\ ui' = [ui EXCEPT !.persists =
                IF ui.session = Null THEN RemoveAt(@, i)
                ELSE [@ EXCEPT ![i].pc = "insert",
                               ![i].caller = ui.session]]
    /\ UNCHANGED <<chat_messages, env, db, req>>

\* lines 171-178: one insert of the request and the analysis
PersistInsertReturns(i, outcome) ==
    /\ i \in 1..Len(ui.persists)
    /\ ui.persists[i].pc = "insert"
    /\ LET task == ui.persists[i]
           userId == BeforeColon(task.caller[1])
           rows == <<ClientRow(userId, "user", task.message),
                     ClientRow(userId, "assistant", task.text)>>
           stored == ClientStoredRows(task.caller, rows, outcome)
       IN /\ chat_messages' = chat_messages \o stored
          /\ db' = [db EXCEPT
                      !.session = Statement(task.caller, "insert",
                                            stored # <<>>)]
          /\ ui' = [ui EXCEPT !.persists = RemoveAt(@, i)]
    /\ UNCHANGED <<env, req>>

\* line 266: back to the dashboard; calls in flight go on
PerfLeave ==
    /\ ui.perf.mounted
    /\ ui' = [ui EXCEPT !.perf.mounted = FALSE]
    /\ UNCHANGED <<chat_messages, env, db, req>>

\* the student with no, one or two records, signed in or not
PerfDbs == {Db({ProfileRow("u1", Some(""))}, 1, n, TRUE) : n \in 0..2}

PerfInit ==
    /\ chat_messages = <<>>
    /\ env \in {e \in Environments : e.SUPABASE /\ e.LOVABLE_API_KEY
                                     /\ e.OPENROUTER_API_KEY}
    /\ db \in PerfDbs
    /\ req = [r \in Requests |-> IdleRequest]
    /\ ui \in {[IdleUi EXCEPT !.session = u] : u \in {Null, Some("u1")}}

PerfNext ==
    \/ PerfMount
    \/ \E readOk \in BOOLEAN : PerfFetchReturns(readOk)
    \/ \E stored \in BOOLEAN : PerfSubmit(stored)
    \/ PerfAnalyzeClick
    \/ \E i \in 1..Len(ui.perf.runs), outcome \in AnalysisOutcomes :
          PerfServiceReturns(i, outcome)
    \/ \E i \in 1..Len(ui.persists) : PersistGetUser(i)
    \/ \E i \in 1..Len(ui.persists), outcome \in InsertOutcomes :
          PersistInsertReturns(i, outcome)
    \/ PerfLeave

PerfSpec == PerfInit /\ [][PerfNext]_vars

\* C24: within one mount of the Performance page the auto-run effect calls
\* analyzeMarks at most once, and only in a render where loading is over
\* and the record list is not empty, whatever reloads of the records and
\* manual analyses happen.
C24_AutoAnalysisOnce ==
    [][ui'.perf.auto_runs > ui.perf.auto_runs =>
          /\ ui.perf.auto_runs = 0
          /\ ui'.perf.auto_runs = 1
          /\ ~ui'.perf.loading
          /\ ui'.perf.records # <<>>]_vars

\* the effect has run once, and since then a manual analysis was started
\* and a reload brought a longer record list
C24_Witness ==
    /\ ui.perf.mounted
    /\ ui.perf.auto_runs = 1
    /\ ui.perf.manual_runs = 1
    /\ ui.perf.fetches = 0
    /\ Len(ui.perf.records) = 3


(* The chat panel of the dashboard: history and the hand-over from the
   Performance page *)

\* ChatInterface.tsx line 111: loadChatHistory reads this many rows
HistoryLimit == 20

\* ChatInterface.tsx line 65: the rows processIncomingState compares with
RecentLimit == 50

\* Performance.tsx lines 410-412: what Go to Support Chat hands over
NavState(marksMessage, analysis) ==
    Some([marksMessage |-> marksMessage, analysis |-> analysis])

\* ChatInterface.tsx line 44: the reply the panel shows and stores
AssistantContent(nav) ==
    IF JsTruthyString(nav.analysis) THEN nav.analysis[1]
    ELSE "Analysis available."

\* the rows a signed-in client reads with .eq('student_id', userId), in
\* the order they were stored (part_000 lines 97-100)
OwnRows(caller) ==
    SelectSeq(chat_messages,
              LAMBDA m : m.student_id = Some(BeforeColon(caller[1]))
                         /\ m.student_id = caller)

\* a list back to front
RECURSIVE Reversed(_)
Reversed(list) ==
    IF list = <<>> THEN <<>>
    ELSE Append(Reversed(Tail(list)), Head(list))

\* ChatInterface.tsx lines 107-111: the oldest rows, oldest first
HistoryRows(caller) == Limit(OwnRows(caller), HistoryLimit)

\* ChatInterface.tsx lines 61-65: the newest rows, newest first
RecentRows(caller) == Limit(Reversed(OwnRows(caller)), RecentLimit)

\* ChatInterface.tsx lines 119-122: a row as the panel shows it
Shown(rows) ==
    [i \in 1..Len(rows) |->
        [role |-> rows[i].role[1], content |-> rows[i].content[1]]]

\* ChatInterface.tsx lines 125-128: the handed-over marks message is left
\* out, when there is one
WithoutMarks(list, nav) ==
    IF nav = Null THEN list
    ELSE SelectSeq(list,
                   LAMBDA m : ~(m.role = "user"
                                /\ m.content = nav[1].marksMessage))

\* ChatInterface.tsx lines 47-50: the reply is added unless it is shown
WithReply(list, nav) ==
    IF nav = Null THEN list
    ELSE LET reply == [role |-> "assistant",
                       content |-> AssistantContent(nav[1])]
         IN IF Among(reply, list) THEN list ELSE Append(list, reply)

\* ChatInterface.tsx line 73: a user row that contains the marks message
HasSimilarUser(recent, marksMessage) ==
    \E i \in 1..Len(recent) :
       recent[i].role = Some("user")
       /\ Includes(recent[i].content[1], marksMessage)

\* ChatInterface.tsx line 79: an assistant row that is the reply
HasSimilarAssistant(recent, content) ==
    \E i \in 1..Len(recent) :
       recent[i].role = Some("assistant")
       /\ recent[i].content = Some(content)

\* a loadChatHistory call that has just started, with the location state
\* its closure holds
NewLoad(mount, nav) ==
    [mount |-> mount, nav |-> nav, pc |-> "get_user", caller |-> Null,
     addAssistant |-> FALSE]

\* ChatInterface.tsx lines 16-19 and 136-138: the panel mounts with fresh
\* state and loads the history
ChatMounted(c, nav) ==
    [IdleChat EXCEPT
       !.mounted = TRUE,
       !.mounts = c.mounts + 1,
       !.loads = Append(c.loads, NewLoad(c.mounts + 1, nav)),
       !.sends = c.sends,
       !.arrivals = IF nav = Null THEN c.arrivals ELSE Append(c.arrivals, nav),
       !.overlap = c.overlap
                   \/ (nav # Null
                       /\ \E i \in 1..Len(c.loads) : c.loads[i].nav # Null),
       !.pressed = c.pressed,
       !.sent = c.sent,
       !.history = c.history]

\* the dashboard is opened with a location state handed over
ChatArrive(nav) ==
    /\ ~ui.chat.mounted
    /\ ui.chat.mounts < MaxVisits
    /\ ui' = [ui EXCEPT !.nav = nav,
                        !.perf.mounted = FALSE,
                        !.chat = ChatMounted(ui.chat, nav)]
    /\ UNCHANGED <<chat_messages, env, db, req>>

\* Performance.tsx lines 408-413: Go to Support Chat hands over the marks
\* of the records on the page and the analysis shown, if any
PerfGoToChat ==
    /\ ui.perf.mounted
    /\ ~ui.chat.mounted
    /\ ui.acts < MaxActs
    /\ ui.chat.mounts < MaxVisits
    /\ LET nav == NavState(MarksMessage(Len(ui.perf.records)),
                           IF JsTruthyString(ui.perf.analysis)
                           THEN ui.perf.analysis ELSE Null)
       IN ui' = [ui EXCEPT !.acts = @ + 1,
                           !.nav = nav,
                           !.perf.mounted = FALSE,
                           !.chat = ChatMounted(ui.chat, nav)]
    /\ UNCHANGED <<chat_messages, env, db, req>>

\* the student leaves the dashboard; calls in flight go on
ChatLeave ==
    /\ ui.chat.mounted
    /\ ui' = [ui EXCEPT !.chat.mounted = FALSE]
    /\ UNCHANGED <<chat_messages, env, db, req>>

\* ChatInterface.tsx lines 100-101: loadChatHistory asks who is signed in
LoadGetUser(i) ==
    /\ i \in 1..Len(ui.chat.loads)
    /\ ui.chat.loads[i].pc = "get_user"
    /\ ui' = [ui EXCEPT !.chat.loads =
                IF ui.session = Null THEN RemoveAt(@, i)
                ELSE [@ EXCEPT ![i].pc = "select",
                               ![i].caller = ui.session]]
    /\ UNCHANGED <<chat_messages, env, db, req>>

\* ChatInterface.tsx lines 106-133 and 35-50: the history read returns;
\* on an error nothing more happens, otherwise the rows are shown and
\* processIncomingState starts, which shows the reply and goes on only
\* with a marks message handed over.  A call of an earlier mount cannot
\* change what the panel shows.
LoadSelectReturns(i, readOk) ==
    /\ i \in 1..Len(ui.chat.loads)
    /\ ui.chat.loads[i].pc = "select"
    /\ LET run == ui.chat.loads[i]
           shown == ui.chat.mounted /\ run.mount = ui.chat.mounts
           data == HistoryRows(run.caller)
           list == WithReply(WithoutMarks(Shown(data), run.nav), run.nav)
       IN ui' = [ui EXCEPT
                   !.chat.messages = IF readOk /\ shown THEN list ELSE @,
                   !.chat.history =
                      IF readOk
                      THEN Some([rows |-> Shown(data), sent |-> ui.chat.sent])
                      ELSE @,
                   !.chat.loads =
                      IF readOk /\ run.nav # Null
                      THEN [@ EXCEPT ![i].pc = "process_get_user"]
                      ELSE RemoveAt(@, i)]
    /\ UNCHANGED <<chat_messages, env, db, req>>

\* ChatInterface.tsx lines 53-55: processIncomingState asks who is signed
\* in
ProcessGetUser(i) ==
    /\ i \in 1..Len(ui.chat.loads)
    /\ ui.chat.loads[i].pc = "process_get_user"
    /\ ui' = [ui EXCEPT !.chat.loads =
                IF ui.session = Null THEN RemoveAt(@, i)
                ELSE [@ EXCEPT ![i].pc = "process_select",
                               ![i].caller = ui.session]]
    /\ UNCHANGED <<chat_messages, env, db, req>>

\* ChatInterface.tsx lines 89-93: the location state is cleared, and the
\* new location makes a mounted panel load the history again
Cleared(u, i) ==
    [u EXCEPT !.nav = Null,
              !.chat.loads =
                 IF u.chat.mounted
                 THEN Append(RemoveAt(@, i), NewLoad(u.chat.mounts, Null))
                 ELSE RemoveAt(@, i)]

\* ChatInterface.tsx lines 58-83: the read of the recent rows returns;
\* after a failed read nothing counts as stored
ProcessSelectReturns(i, readOk) ==
    /\ i \in 1..Len(ui.chat.loads)
    /\ ui.chat.loads[i].pc = "process_select"
    /\ LET run == ui.chat.loads[i]
           recent == IF readOk THEN RecentRows(run.caller) ELSE <<>>
           addUser == ~HasSimilarUser(recent, run.nav[1].marksMessage)
           addAssistant ==
               ~HasSimilarAssistant(recent, AssistantContent(run.nav[1]))
       IN ui' = IF addUser
                THEN [ui EXCEPT !.chat.loads[i].pc = "insert_user",
                                !.chat.loads[i].addAssistant = addAssistant]
                ELSE IF addAssistant
                THEN [ui EXCEPT !.chat.loads[i].pc = "insert_assistant"]
                ELSE Cleared(ui, i)
    /\ UNCHANGED <<chat_messages, env, db, req>>

\* ChatInterface.tsx lines 74-78: the insert of the marks message returns;
\* when it throws the reply is not stored
ProcessInsertUserReturns(i, outcome) ==
    /\ i \in 1..Len(ui.chat.loads)
    /\ ui.chat.loads[i].pc = "insert_user"
    /\ LET run == ui.chat.loads[i]
           userId == BeforeColon(run.caller[1])
           stored == ClientStoredRows(
                        run.caller,
                        <<ClientRow(userId, "user",
                                    run.nav[1].marksMessage)>>,
                        outcome)
       IN /\ chat_messages' = chat_messages \o stored
          /\ db' = [db EXCEPT
                      !.session = Statement(run.caller, "insert",
                                            stored # <<>>)]
          /\ ui' = IF outcome # "thrown" /\ run.addAssistant
                   THEN [ui EXCEPT !.chat.loads[i].pc = "insert_assistant"]
                   ELSE Cleared(ui, i)
    /\ UNCHANGED <<env, req>>

\* ChatInterface.tsx lines 80-84: the insert of the reply returns
ProcessInsertAssistantReturns(i, outcome) ==
    /\ i \in 1..Len(ui.chat.loads)
    /\ ui.chat.loads[i].pc = "insert_assistant"
    /\ LET run == ui.chat.loads[i]
           userId == BeforeColon(run.caller[1])
           stored == ClientStoredRows(
                        run.caller,
                        <<ClientRow(userId, "assistant",
                                    AssistantContent(run.nav[1]))>>,
                        outcome)
       IN /\ chat_messages' = chat_messages \o stored
          /\ db' = [db EXCEPT
                      !.session = Statement(run.caller, "insert",
                                            stored # <<>>)]
          /\ ui' = Cleared(ui, i)
    /\ UNCHANGED <<env, req>>


\* a log that fills the window loadChatHistory reads
LongLog ==
    [i \in 1..HistoryLimit |-> ClientRow("u1", "user", "hello")]

\* what the Performance page can hand over for one record: the analysis
\* shown, or none yet
NavStates ==
    {NavState(MarksMessage(1), Some("analysis")),
     NavState(MarksMessage(1), Null)}

ChatLoadInit ==
    /\ chat_messages \in PriorLogs \cup {LongLog}
    /\ env \in {e \in Environments : e.SUPABASE /\ e.LOVABLE_API_KEY
                                     /\ e.OPENROUTER_API_KEY}
    /\ db = DefaultDb
    /\ req = [r \in Requests |-> IdleRequest]
    /\ ui \in {[IdleUi EXCEPT !.session = u] : u \in {Null, Some("u1")}}

\* every step of a loadChatHistory call in flight
ChatLoadSteps ==
    \/ \E i \in 1..Len(ui.chat.loads) : LoadGetUser(i)
    \/ \E i \in 1..Len(ui.chat.loads), readOk \in BOOLEAN :
          LoadSelectReturns(i, readOk)
    \/ \E i \in 1..Len(ui.chat.loads) : ProcessGetUser(i)
    \/ \E i \in 1..Len(ui.chat.loads), readOk \in BOOLEAN :
          ProcessSelectReturns(i, readOk)
    \/ \E i \in 1..Len(ui.chat.loads), outcome \in InsertOutcomes :
          ProcessInsertUserReturns(i, outcome)
    \/ \E i \in 1..Len(ui.chat.loads), outcome \in InsertOutcomes :
          ProcessInsertAssistantReturns(i, outcome)

ChatLoadNext ==
    \/ \E nav \in NavStates \cup {Null} : ChatArrive(nav)
    \/ ChatLeave
    \/ ChatLoadSteps

\* the dashboard opened with and without a hand-over, any number of times
ChatLoadSpec == ChatLoadInit /\ [][ChatLoadNext]_vars

\* the stored rows with this role whose content passes the test
RowsWith(role, content, contains) ==
    SelectSeq(chat_messages,
              LAMBDA m : m.role = Some(role)
                         /\ IF contains THEN Includes(m.content[1], content)
                            ELSE m.content = Some(content))

\* C22: processIncomingState run any number of times, one run after
\* another, with the same navigation state for the same user leaves at
\* most one user row containing the marks message and at most one
\* assistant row with the analysis text in the log.
C22_ProcessIdempotent ==
    (/\ ~ui.chat.overlap
     /\ \A i \in 1..Len(ui.chat.arrivals) :
           ui.chat.arrivals[i] = ui.chat.arrivals[1]) =>
        \A i \in 1..Len(ui.chat.arrivals) :
           LET nav == ui.chat.arrivals[i][1]
           IN /\ Len(RowsWith("user", nav.marksMessage, TRUE)) <= 1
              /\ Len(RowsWith("assistant", AssistantContent(nav), FALSE)) <= 1


\* the student signed in, with one record and nothing stored yet
ClientInit ==
    /\ chat_messages = <<>>
    /\ env \in {e \in Environments : e.SUPABASE /\ e.LOVABLE_API_KEY
                                     /\ e.OPENROUTER_API_KEY}
    /\ db = Db({ProfileRow("u1", Some(""))}, 1, 1, TRUE)
    /\ req = [r \in Requests |-> IdleRequest]
    /\ ui = [IdleUi EXCEPT !.session = Some("u1")]

\* the Performance page with its background insert, the hand-over to the
\* dashboard and the chat panel's loads, with every read answered
ClientNext ==
    \/ PerfMount
    \/ PerfFetchReturns(TRUE)
    \/ PerfAnalyzeClick
    \/ \E i \in 1..Len(ui.perf.runs), outcome \in AnalysisOutcomes :
          PerfServiceReturns(i, outcome)
    \/ \E i \in 1..Len(ui.persists) : PersistGetUser(i)
    \/ \E i \in 1..Len(ui.persists) : PersistInsertReturns(i, "applied")
    \/ PerfGoToChat
    \/ ChatLeave
    \/ \E i \in 1..Len(ui.chat.loads) : LoadGetUser(i)
    \/ \E i \in 1..Len(ui.chat.loads) : LoadSelectReturns(i, TRUE)
    \/ \E i \in 1..Len(ui.chat.loads) : ProcessGetUser(i)
    \/ \E i \in 1..Len(ui.chat.loads) : ProcessSelectReturns(i, TRUE)
    \/ \E i \in 1..Len(ui.chat.loads) :
          ProcessInsertUserReturns(i, "applied")
    \/ \E i \in 1..Len(ui.chat.loads) :
          ProcessInsertAssistantReturns(i, "applied")

ClientSpec == ClientInit /\ [][ClientNext]_vars

\* C27: for one marks analysis the analysis text is stored at most once,
\* whatever the interleaving of the background insert of analyzeMarks and
\* the check-then-insert of processIncomingState.
C27_AnalysisStoredOnce ==
    ui.perf.started = 1 =>
        \A text \in {"analysis", "{raw json}"} :
           Len(RowsWith("assistant", text, FALSE)) <= 1

\* the marks messages handed over so far, as record counts
HandedOver ==
    {n \in 0..MaxRecords :
        \E i \in 1..Len(ui.chat.arrivals) :
           ui.chat.arrivals[i][1].marksMessage = MarksMessage(n)}

\* C23: once the student has arrived from the Performance page with a
\* marks message, the panel shows no user message that is the marks
\* message or the analysis request built from the same marks.
C23_MarksNeverShown ==
    \A i \in 1..Len(ui.chat.messages), n \in HandedOver :
       ui.chat.messages[i].role = "user" =>
          ui.chat.messages[i].content
             \notin {MarksMessage(n), AnalysisRequest(n)}


-----------------------------------------------------------------------------
(* The chat panel of the dashboard: sendMessage *)

\* what the student may have typed when pressing send
Inputs == {"", "  ", "m1"}

\* String.prototype.trim on the inputs
Trimmed(text) == IF text \in {"", " ", "  "} THEN "" ELSE text

\* ChatInterface.tsx lines 152-160: the request functions.invoke makes for
\* a send: the messages shown and the new one, no student_id, the
\* session's access token
SendBody(send) ==
    ChatBody("array", send.payload, Null, Some("tok_" \o send.caller[1]))

\* the request slot a new call of the function gets, 0 when none is free
FreeSlot ==
    LET free == {r \in Requests :
                    /\ req[r].pc = "idle"
                    /\ \A i \in 1..Len(ui.chat.sends) :
                          ui.chat.sends[i].slot # r}
    IN IF free = {} THEN 0 ELSE CHOOSE r \in free : \A o \in free : r <= o

ChatSend_NoLoadingCheck(text) ==
    /\ ui.chat.mounted
    /\ ui.acts < MaxSends
    /\ LET message == [role |-> "user", content |-> text]
           send == [mount |-> ui.chat.mounts, pc |-> "get_session",
                    text |-> text, caller |-> Null, slot |-> 0,
                    function |-> "pending",
                    payload |-> Append(ui.chat.messages, message)]
       IN ui' = IF Trimmed(text) = ""
                THEN [ui EXCEPT !.acts = @ + 1, !.chat.pressed = text]
                ELSE [ui EXCEPT !.acts = @ + 1,
                                !.chat.pressed = text,
                                !.chat.messages = Append(@, message),
                                !.chat.loading = TRUE,
                                !.chat.sends = Append(@, send)]
    /\ UNCHANGED <<chat_messages, env, db, req>>

\* ChatInterface.tsx lines 140-146: send is pressed with this input;
\* nothing happens when it is blank or a send is in flight, otherwise the
\* message is shown and the call starts
ChatSend(text) ==
    /\ ui.chat.mounted
    /\ ui.acts < MaxSends
    /\ LET message == [role |-> "user", content |-> text]
           send == [mount |-> ui.chat.mounts, pc |-> "get_session",
                    text |-> text, caller |-> Null, slot |-> 0,
                    function |-> "pending",
                    payload |-> Append(ui.chat.messages, message)]
       IN ui' = IF Trimmed(text) = "" \/ ui.chat.loading
                THEN [ui EXCEPT !.acts = @ + 1, !.chat.pressed = text]
                ELSE [ui EXCEPT !.acts = @ + 1,
                                !.chat.pressed = text,
                                !.chat.messages = Append(@, message),
                                !.chat.loading = TRUE,
                                !.chat.sends = Append(@, send)]
    /\ UNCHANGED <<chat_messages, env, db, req>>

\* ChatInterface.tsx lines 203-209: the call is over: the reply, if any,
\* is shown and loading ends.  A call of an earlier mount cannot change
\* what the panel shows.
Settled(u, i, reply) ==
    LET shown == u.chat.mounted /\ u.chat.sends[i].mount = u.chat.mounts
    IN [u EXCEPT
          !.chat.sends = RemoveAt(@, i),
          !.chat.loading = IF shown THEN FALSE ELSE @,
          !.chat.messages =
             IF shown /\ reply # Null
             THEN Append(@, [role |-> "assistant", content |-> reply[1]])
             ELSE @]

\* ChatInterface.tsx lines 148-161: getSession returns; without a session
\* the call ends with a toast, otherwise the function is invoked
SendSessionReturns(i) ==
    /\ i \in 1..Len(ui.chat.sends)
    /\ ui.chat.sends[i].pc = "get_session"
    /\ ui' = IF ui.session = Null THEN Settled(ui, i, Null)
             ELSE [ui EXCEPT !.chat.sends[i].pc = "invoke",
                             !.chat.sends[i].caller = ui.session,
                             !.chat.sends[i].slot = FreeSlot]
    /\ UNCHANGED <<chat_messages, env, db, req>>

\* the send whose request slot r serves
SendOf(r) ==
    {i \in 1..Len(ui.chat.sends) :
        ui.chat.sends[i].pc = "invoke" /\ ui.chat.sends[i].slot = r}

\* ChatInterface.tsx lines 156-172: the function has answered; 200 gives
\* the reply that is shown, any other status is an error and the fallback
\* is tried
SendFunctionReturns(i) ==
    /\ i \in 1..Len(ui.chat.sends)
    /\ ui.chat.sends[i].pc = "invoke"
    /\ ui.chat.sends[i].slot \in Requests
    /\ LET send == ui.chat.sends[i]
           q == req[send.slot]
           content == IF q.response.message # Null
                      THEN q.response.message[1] ELSE "{raw json}"
       IN /\ q.pc = "done"
          /\ req' = [req EXCEPT ![send.slot] = IdleRequest]
          /\ ui' = IF q.response.status = OkStatus
                   THEN [Settled(ui, i, Some(content)) EXCEPT
                           !.chat.sent = Some([caller |-> send.caller,
                                               text |-> send.text,
                                               reply |-> content,
                                               handler |-> q.handler])]
                   ELSE [ui EXCEPT !.chat.sends[i].pc = "fallback",
                                   !.chat.sends[i].function = "failed",
                                   !.chat.sends[i].slot = 0]
    /\ UNCHANGED <<chat_messages, env, db>>

\* ChatInterface.tsx lines 173-176: the call fails without an answer of
\* the function: it was not reached, or the platform ended it before it
\* answered; the fallback is tried
SendInvokeFails(i) ==
    /\ i \in 1..Len(ui.chat.sends)
    /\ ui.chat.sends[i].pc = "invoke"
    /\ LET slot == ui.chat.sends[i].slot
       IN /\ slot \in Requests => req[slot].pc # "done"
          /\ req' = IF slot \in Requests
                    THEN [req EXCEPT ![slot] = IdleRequest] ELSE req
    /\ ui' = [ui EXCEPT !.chat.sends[i].pc = "fallback",
                        !.chat.sends[i].function = "failed",
                        !.chat.sends[i].slot = 0]
    /\ UNCHANGED <<chat_messages, env, db>>

SendFallbackReturns_StaysBusy(i, outcome) ==
    /\ i \in 1..Len(ui.chat.sends)
    /\ ui.chat.sends[i].pc = "fallback"
    /\ ui' = IF outcome.kind = "error"
             THEN [ui EXCEPT !.chat.sends = RemoveAt(@, i)]
             ELSE Settled(ui, i, outcome.text)
    /\ UNCHANGED <<chat_messages, env, db, req>>

\* ChatInterface.tsx lines 177-201: the fallback /chat has answered; a
\* usable answer is shown, a failure raises a toast
SendFallbackReturns(i, outcome) ==
    /\ i \in 1..Len(ui.chat.sends)
    /\ ui.chat.sends[i].pc = "fallback"
    /\ ui' = Settled(ui, i, outcome.text)
    /\ UNCHANGED <<chat_messages, env, db, req>>

\* the requests of the sends that wait for the function
SendBodies(r) == {SendBody(ui.chat.sends[i]) : i \in SendOf(r)}

\* one step of the deployed ai-chat function, either version, for the
\* request in slot r, with these answers of the upstream
FunctionStepOf(r, outcomes) ==
    \/ AiChatReceive(r, SendBodies(r))
    \/ \E outcome \in outcomes : AiChatGatewayReturns(r, outcome)
    \/ AiChatTimeoutFires(r)
    \/ AiChatInsertReturns(r, "applied")
    \/ CtxReceive(r, SendBodies(r))
    \/ CtxAuthReturns(r)
    \/ CtxFetchContextOf(r, AllReadsSucceed)
    \/ \E outcome \in outcomes : CtxGatewayReturns(r, outcome)
    \/ CtxInsertReturns(r, "applied")

FunctionStep(r) == FunctionStepOf(r, RaceOutcomes)

\* the student signed in or not, with a short or a long history
SendInit ==
    /\ chat_messages \in {<<>>, LongLog}
    /\ env \in {e \in Environments : e.SUPABASE /\ e.LOVABLE_API_KEY
                                     /\ e.OPENROUTER_API_KEY}
    /\ db = DefaultDb
    /\ req = [r \in Requests |-> IdleRequest]
    /\ ui \in {[IdleUi EXCEPT !.session = u] : u \in {Null, Some("u1")}}

SendNext ==
    \/ ChatArrive(Null)
    \/ ChatLeave
    \/ \E i \in 1..Len(ui.chat.loads) : LoadGetUser(i)
    \/ \E i \in 1..Len(ui.chat.loads), readOk \in BOOLEAN :
          LoadSelectReturns(i, readOk)
    \/ \E text \in Inputs : ChatSend(text)
    \/ \E i \in 1..Len(ui.chat.sends) : SendSessionReturns(i)
    \/ \E i \in 1..Len(ui.chat.sends) : SendFunctionReturns(i)
    \/ \E i \in 1..Len(ui.chat.sends) : SendInvokeFails(i)
    \/ \E i \in 1..Len(ui.chat.sends), outcome \in AnalysisOutcomes :
          SendFallbackReturns(i, outcome)
    \/ \E r \in Requests : FunctionStep(r)

\* the dashboard with its chat panel and the ai-chat function behind it
SendSpec == SendInit /\ [][SendNext]_vars


\* the upstream of the function answers with one reply or not at all
IdleOutcomes == {o \in RaceOutcomes : o.content # Some("reply_b")}

\* the chat panel and the function alone, the history reads unanswered
PanelNext ==
    \/ ChatArrive(Null)
    \/ ChatLeave
    \/ \E text \in Inputs : ChatSend(text)
    \/ \E i \in 1..Len(ui.chat.sends) : SendSessionReturns(i)
    \/ \E i \in 1..Len(ui.chat.sends) : SendFunctionReturns(i)
    \/ \E i \in 1..Len(ui.chat.sends) : SendInvokeFails(i)
    \/ \E i \in 1..Len(ui.chat.sends), outcome \in AnalysisOutcomes :
          SendFallbackReturns(i, outcome)
    \/ \E r \in Requests : FunctionStepOf(r, IdleOutcomes)

PanelSpec == SendInit /\ [][PanelNext]_vars

\* C25: after sendMessage has succeeded through the ai-chat function for a
\* signed-in user, a later loadChatHistory of that user returns the user
\* message just sent and the assistant reply.
C25_SentThenLoaded ==
    (ui.chat.history # Null /\ ui.chat.history[1].sent # Null) =>
        LET sent == ui.chat.history[1].sent[1]
            rows == ui.chat.history[1].rows
        IN /\ Among([role |-> "user", content |-> sent.text], rows)
           /\ Among([role |-> "assistant", content |-> sent.reply], rows)


\* the sends in flight that the mounted panel started
OwnSends ==
    {i \in 1..Len(ui.chat.sends) : ui.chat.sends[i].mount = ui.chat.mounts}

\* send was pressed in this step
Pressed == ui.chat.mounted /\ ui'.acts > ui.acts /\ ui'.chat.mounted

\* the step shows one more message, of this role
ShowsOneMore(role) ==
    /\ Len(ui'.chat.messages) = Len(ui.chat.messages) + 1
    /\ SubSeq(ui'.chat.messages, 1, Len(ui.chat.messages)) = ui.chat.messages
    /\ ui'.chat.messages[Len(ui'.chat.messages)].role = role

\* C28 as stated: at any time at most one chat request started by
\* sendMessage is outstanding.
C28_OneRequestOutstanding == Len(ui.chat.sends) <= 1

\* what a step does to the messages shown: pressing send with a blank
\* input or with a send in flight changes nothing, an accepted send shows
\* exactly one more user message, a call that is over at most one more
\* assistant message, and a call under way none
SendStep ==
    /\ Pressed =>
          IF Trimmed(ui'.chat.pressed) = "" \/ ui.chat.loading
          THEN /\ ui'.chat.messages = ui.chat.messages
               /\ ui'.chat.sends = ui.chat.sends
               /\ ui'.chat.loading = ui.chat.loading
               /\ req' = req
          ELSE /\ Len(ui'.chat.sends) = Len(ui.chat.sends) + 1
               /\ ShowsOneMore("user")
               /\ ui'.chat.messages[Len(ui'.chat.messages)].content
                     = ui'.chat.pressed
    /\ Len(ui'.chat.sends) < Len(ui.chat.sends) =>
          /\ Len(ui'.chat.sends) = Len(ui.chat.sends) - 1
          /\ \/ ui'.chat.messages = ui.chat.messages
             \/ ShowsOneMore("assistant")
    /\ (/\ ~Pressed
        /\ Len(ui'.chat.sends) = Len(ui.chat.sends)
        /\ ui'.chat.sends # ui.chat.sends) =>
          ui'.chat.messages = ui.chat.messages

\* C28, for one mount of the panel: sendMessage does nothing when the
\* input is blank or a send is in flight, at most one request of the
\* mounted panel is outstanding, and each accepted send shows exactly one
\* user message and at most one assistant message, from the fallback only
\* after the function call failed.
C28_SendGuard ==
    /\ [](Cardinality(OwnSends) <= 1)
    /\ [](\A i \in 1..Len(ui.chat.sends) :
             ui.chat.sends[i].pc = "fallback" =>
                ui.chat.sends[i].function = "failed")
    /\ [][SendStep]_vars

\* a send of the mounted panel is in flight, send was pressed again and
\* nothing came of it
C28_Witness ==
    /\ ui.chat.mounted
    /\ ui.chat.loading
    /\ Cardinality(OwnSends) = 1
    /\ ui.chat.pressed = "m1"
    /\ ui.acts = 2
    /\ \E i \in OwnSends : ui.chat.sends[i].pc = "fallback"


-----------------------------------------------------------------------------
(* Calls that settle: sendMessage and analyzeMarks *)

\* the fallback and the analysis service fail or answer with a message
SettleOutcomes ==
    {o \in AnalysisOutcomes : o.kind \in {"error", "json_message"}}

\* the dashboard and the Performance page, one at a time as the router
\* shows them, with the calls of sendMessage and analyzeMarks
IdleNext ==
    \/ ChatArrive(Null)
    \/ \E text \in Inputs : ChatSend(text)
    \/ \E i \in 1..Len(ui.chat.sends) : SendSessionReturns(i)
    \/ \E i \in 1..Len(ui.chat.sends) : SendFunctionReturns(i)
    \/ \E i \in 1..Len(ui.chat.sends) : SendInvokeFails(i)
    \/ \E i \in 1..Len(ui.chat.sends), outcome \in SettleOutcomes :
          SendFallbackReturns(i, outcome)
    \/ \E r \in Requests : FunctionStepOf(r, IdleOutcomes)
    \/ PerfMount
    \/ \E readOk \in BOOLEAN : PerfFetchReturns(readOk)
    \/ PerfAnalyzeClick
    \/ \E i \in 1..Len(ui.perf.runs), outcome \in SettleOutcomes :
          PerfServiceReturns(i, outcome)

\* the student with one record, signed in or not, and nothing stored
IdleInit ==
    /\ chat_messages = <<>>
    /\ env \in {e \in Environments : e.SUPABASE /\ e.LOVABLE_API_KEY
                                     /\ e.OPENROUTER_API_KEY}
    /\ db = DefaultDb
    /\ req = [r \in Requests |-> IdleRequest]
    /\ ui \in {[IdleUi EXCEPT !.session = u] : u \in {Null, Some("u1")}}

IdleSpec == IdleInit /\ [][IdleNext]_vars

\* Every call the two functions await settles: the session lookup, the
\* function call (answered, or failed without an answer), the fallback
\* and the analysis service.  Nothing obliges the function's upstream to
\* answer or the student to do anything.
FairIdleSpec ==
    /\ IdleSpec
    /\ WF_vars(\E i \in 1..Len(ui.chat.sends) : SendSessionReturns(i))
    /\ WF_vars(\E i \in 1..Len(ui.chat.sends) :
                  SendFunctionReturns(i) \/ SendInvokeFails(i))
    /\ WF_vars(\E i \in 1..Len(ui.chat.sends), outcome \in SettleOutcomes :
                  SendFallbackReturns(i, outcome))
    /\ WF_vars(\E i \in 1..Len(ui.perf.runs), outcome \in SettleOutcomes :
                  PerfServiceReturns(i, outcome))

\* C29: every accepted sendMessage brings the panel back to idle: once
\* its calls have settled loading is false again, whether the function
\* answered, the fallback answered, both failed or there was no session;
\* the same for analyzing in analyzeMarks.
C29_ReturnsToIdle ==
    /\ [](ui.chat.mounted /\ ui.chat.loading =>
             <>(~ui.chat.loading \/ ~ui.chat.mounted))
    /\ [](ui.perf.mounted /\ ui.perf.analyzing =>
             <>(~ui.perf.analyzing \/ ~ui.perf.mounted))

\* a send whose function call and fallback both failed has ended, the
\* panel is idle again and still mounted; an analysis has ended too
C29_Witness ==
    /\ ui.chat.mounted
    /\ ~ui.chat.loading
    /\ ui.chat.sends = <<>>
    /\ ui.chat.pressed = "m1"
    /\ Len(ui.chat.messages) = 1
    /\ ui.perf.started = 1
    /\ ~ui.perf.analyzing
    /\ ui.perf.runs = <<>>

====
